---- MODULE Spec2Model ----
(***************************************************************************)
(* Optimism derivation of zeth: the witness database MemDb, and the        *)
(* DeriveMachine (new, derive, process_next_eth_block,                     *)
(* derive_system_transaction) of lib/src/optimism/mod.rs.                  *)
(*                                                                         *)
(* Hashes are modelled as injective constructors: the Keccak hash of a     *)
(* header h is [keccak |-> h], the root of a trie is [mpt |-> its key to   *)
(* value map], the RLP bytes of a transaction t are [rlp |-> t].           *)
(* u64 values live in 0..U64Max; an addition that leaves the range panics  *)
(* in a build with overflow checks and wraps in a build without them.      *)
(***************************************************************************)
EXTENDS Integers, Sequences, FiniteSets, TLC

(* ------------------------------ bounds -------------------------------- *)

\* Largest value of the (scaled down) u64 type.
U64Max == 31
\* Largest op_derive_block_count tried.
MaxCount == 2
\* Most calls of derive on one machine.
MaxCalls == 2

(* ----------------------------- primitives ----------------------------- *)

None == [none |-> TRUE]

Some(v) == [some |-> v]

IsSome(o) == "some" \in DOMAIN o

\* Header::hash: Keccak of the RLP of the header.
HeaderHash(h) == [keccak |-> h]

\* usize::to_rlp, the trie key of index i: 0 is the empty string 0x80, a
\* value below 0x80 is its own byte, a longer one gets a length prefix.
ToRlp(i) == IF i = 0 THEN <<128>> ELSE IF i < 128 THEN <<i>> ELSE <<129, i>>

\* to_rlp of a transaction or a receipt: its encoded bytes.
to_rlp(x) == [rlp |-> x]

\* The root of an MptNode after inserting values[i] under ToRlp(i - 1)
\* for every i, in order: the root commits to the key to value map.
TrieRoot(values) ==
  LET keys == {ToRlp(i - 1) : i \in 1..Len(values)}
  IN  [mpt |-> [k \in keys |->
                 values[CHOOSE i \in 1..Len(values) : ToRlp(i - 1) = k]]]

SeqMap(Op(_), s) == [i \in 1..Len(s) |-> Op(s[i])]

\* U256 -> u64 by try_into().unwrap(): defined only when the value fits.
FitsU64(x) == x \in 0..U64Max

(* --------------------------- chain constants --------------------------- *)

\* ChainConfig::optimism(): the L2 block time.
BlockTime == 2

DepositContract == "deposit_contract"

SystemConfigContract == "system_config_contract"

BatchInbox == "batch_inbox"

(* ------------------------------ witness DB ---------------------------- *)

\* A remove that leaves the entry in the map.
remove_nothing(map, n) == map

\* HashMap::remove(&n).unwrap(): the map without n.
Remove(map, n) == [k \in DOMAIN map \ {n} |-> map[k]]

\* The result of a read: what happened, the database after it, the value.
Ret(st, db, v) == [status |-> st, db |-> db, value |-> v]

\* get_full_op_block that puts the entry back when its transactions do not
\* match the header.
get_full_op_block_keeping_entry(db, block_no) ==
  IF block_no \notin DOMAIN db.full_op_block
  THEN Ret("panic", db, None)
  ELSE LET op_block == db.full_op_block[block_no]
           db1 == [db EXCEPT !.full_op_block = Remove(@, block_no)]
       IN  IF block_no # op_block.block_header.number
           THEN Ret("panic", db1, None)
           ELSE IF TrieRoot(SeqMap(to_rlp, op_block.transactions))
                     # op_block.block_header.transactions_root
                THEN Ret("error", db, None)
                ELSE Ret("ok", db1, op_block)

\* MemDb::get_full_op_block
get_full_op_block(db, block_no) ==
  IF block_no \notin DOMAIN db.full_op_block
  THEN Ret("panic", db, None)
  ELSE LET op_block == db.full_op_block[block_no]
           db1 == [db EXCEPT !.full_op_block = Remove(@, block_no)]
       IN  IF block_no # op_block.block_header.number
           THEN Ret("panic", db1, None)
           ELSE IF TrieRoot(SeqMap(to_rlp, op_block.transactions))
                     # op_block.block_header.transactions_root
                THEN Ret("error", db1, None)
                ELSE Ret("ok", db1, op_block)

\* get_op_block_header without its assertion on the header's number.
get_op_block_header_any_number(db, block_no) ==
  IF block_no \notin DOMAIN db.op_block_header
  THEN Ret("panic", db, None)
  ELSE Ret("ok",
           [db EXCEPT !.op_block_header = Remove(@, block_no)],
           db.op_block_header[block_no])

\* MemDb::get_op_block_header
get_op_block_header(db, block_no) ==
  IF block_no \notin DOMAIN db.op_block_header
  THEN Ret("panic", db, None)
  ELSE LET op_block == db.op_block_header[block_no]
           db1 == [db EXCEPT !.op_block_header = Remove(@, block_no)]
       IN  IF block_no # op_block.number
           THEN Ret("panic", db1, None)
           ELSE Ret("ok", db1, op_block)

\* deposits::can_contain / system_config::can_contain: whether the logs
\* bloom of the header may hold a log of the contract.
can_contain(address, logs_bloom) == address \in logs_bloom

\* get_full_eth_block without its validation of the receipts.
get_full_eth_block_any_receipts(db, block_no) ==
  IF block_no \notin DOMAIN db.full_eth_block
  THEN Ret("panic", db, None)
  ELSE LET eth_block == db.full_eth_block[block_no]
           db1 == [db EXCEPT !.full_eth_block = Remove(@, block_no)]
       IN  IF block_no # eth_block.block_header.number
           THEN Ret("panic", db1, None)
           ELSE IF TrieRoot(SeqMap(to_rlp, eth_block.transactions))
                     # eth_block.block_header.transactions_root
                THEN Ret("error", db1, None)
                ELSE Ret("ok", db1, eth_block)

\* MemDb::get_full_eth_block
get_full_eth_block(db, block_no) ==
  IF block_no \notin DOMAIN db.full_eth_block
  THEN Ret("panic", db, None)
  ELSE LET eth_block == db.full_eth_block[block_no]
           db1 == [db EXCEPT !.full_eth_block = Remove(@, block_no)]
       IN  IF block_no # eth_block.block_header.number
           THEN Ret("panic", db1, None)
           ELSE IF TrieRoot(SeqMap(to_rlp, eth_block.transactions))
                     # eth_block.block_header.transactions_root
                THEN Ret("error", db1, None)
                ELSE IF IsSome(eth_block.receipts)
                     THEN IF TrieRoot(SeqMap(to_rlp, eth_block.receipts.some))
                               # eth_block.block_header.receipts_root
                          THEN Ret("error", db1, None)
                          ELSE Ret("ok", db1, eth_block)
                     ELSE IF \/ can_contain(DepositContract,
                                            eth_block.block_header.logs_bloom)
                             \/ can_contain(SystemConfigContract,
                                            eth_block.block_header.logs_bloom)
                          THEN Ret("panic", db1, None)
                          ELSE Ret("ok", db1, eth_block)

\* MemDb::get_eth_block_header
get_eth_block_header(db, block_no) ==
  IF block_no \notin DOMAIN db.eth_block_header
  THEN Ret("panic", db, None)
  ELSE LET eth_block == db.eth_block_header[block_no]
           db1 == [db EXCEPT !.eth_block_header = Remove(@, block_no)]
       IN  IF block_no # eth_block.number
           THEN Ret("panic", db1, None)
           ELSE Ret("ok", db1, eth_block)

(* ------------------- derivation state (derivation.rs) ------------------ *)

\* State::new
State_new(l1_no, l1_hash, safe_head, epoch) ==
  [current_l1_block_number |-> l1_no,
   current_l1_block_hash |-> l1_hash,
   safe_head |-> safe_head,
   epoch |-> epoch,
   next_epochs |-> <<>>]

\* State::push_epoch: the epoch is enqueued behind the ones pushed before.
push_epoch(state, epoch) ==
  [state EXCEPT !.next_epochs = Append(@, epoch)]

\* The queued epochs whose number is above the current epoch's.
PendingEpochs(state) ==
  SelectSeq(state.next_epochs, LAMBDA e : e.number > state.epoch.number)

\* State::next_epoch: the queued epoch that follows the current one.
next_epoch(state) ==
  LET pending == PendingEpochs(state)
  IN  IF Len(pending) > 0 /\ pending[1].number = state.epoch.number + 1
      THEN Some(pending[1])
      ELSE None

\* State::do_next_epoch: adopt the epoch that follows the current one; an
\* error when none is queued.
do_next_epoch(state) ==
  LET nxt == next_epoch(state)
  IN  IF IsSome(nxt)
      THEN [status |-> "ok",
            state |-> [state EXCEPT !.epoch = nxt.some,
                                    !.next_epochs = Tail(PendingEpochs(state))]]
      ELSE [status |-> "error", state |-> state]

(* -------------- system config and deposits (spec 4.2, 4.3) ------------- *)

\* All logs of a block in receipt order, then log order.
RECURSIVE BlockLogs(_)
BlockLogs(receipts) ==
  IF Len(receipts) = 0 THEN <<>>
  ELSE Head(receipts).logs \o BlockLogs(Tail(receipts))

\* One ConfigUpdate applied to the system config; an unknown update type
\* or a version other than 0 fails.
RECURSIVE apply_config_updates(_, _)
apply_config_updates(system_config, logs) ==
  IF Len(logs) = 0 THEN [status |-> "ok", system_config |-> system_config]
  ELSE LET log == Head(logs)
       IN  IF log.address # SystemConfigContract \/ log.topic # "ConfigUpdate"
           THEN apply_config_updates(system_config, Tail(logs))
           ELSE IF log.version # 0
                THEN [status |-> "error", system_config |-> system_config]
                ELSE IF log.update_type = "BatcherAddress"
                THEN apply_config_updates(
                       [system_config EXCEPT !.batch_sender = log.value],
                       Tail(logs))
                ELSE IF log.update_type = "FeeOverhead"
                THEN apply_config_updates(
                       [system_config EXCEPT !.l1_fee_overhead = log.value],
                       Tail(logs))
                ELSE IF log.update_type = "FeeScalar"
                THEN apply_config_updates(
                       [system_config EXCEPT !.l1_fee_scalar = log.value],
                       Tail(logs))
                ELSE IF log.update_type = "GasLimit"
                THEN apply_config_updates(system_config, Tail(logs))
                ELSE [status |-> "error", system_config |-> system_config]

\* SystemConfig::update: the ConfigUpdate logs of the block's receipts,
\* applied in receipt order.
system_config_update(system_config, eth_block) ==
  apply_config_updates(system_config, BlockLogs(eth_block.receipts.some))

\* The L2 deposited transaction of the deposit log at log_index of the
\* block with hash l1_block_hash (user-deposit source hash, domain 0).
DepositTx(l1_block_hash, log_index, log) ==
  [essence |->
     [kind |-> "OptimismDeposited",
      source_hash |-> [keccak |-> <<0, [keccak |-> <<l1_block_hash, log_index>>]>>],
      from |-> log.from,
      to |-> log.to,
      data |-> log.data],
   signature |-> 0]

\* deposits::extract_transactions: nothing when the bloom rules deposit
\* logs out, else the deposit logs of the receipts in block order.
extract_transactions(eth_block) ==
  IF ~can_contain(DepositContract, eth_block.block_header.logs_bloom)
     \/ ~IsSome(eth_block.receipts)
  THEN <<>>
  ELSE LET logs == BlockLogs(eth_block.receipts.some)
           idx == SelectSeq([i \in 1..Len(logs) |-> i],
                            LAMBDA i : /\ logs[i].address = DepositContract
                                       /\ logs[i].topic = "TransactionDeposited")
       IN  [k \in 1..Len(idx) |->
              DepositTx(HeaderHash(eth_block.block_header), idx[k] - 1, logs[idx[k]])]

(* ------------------- batch queue (spec 4.4 and 4.6) -------------------- *)

\* ChainConfig::optimism(): batches may refer to this many epochs from the
\* current one on.
SeqWindowSize == 3

\* ChainConfig::optimism(): how far a batch's timestamp may run ahead of
\* its epoch's.
MaxSequencerDrift == 6

\* The epochs a batch may refer to: the current one and the queued ones.
epoch_history(state) == <<state.epoch>> \o PendingEpochs(state)

\* Rules 1, 3, 4 and 5 of the batch queue for a batch of the next slot.
batch_valid(state, batch) ==
  /\ batch.parent_hash = state.safe_head.hash
  /\ batch.epoch_num >= state.epoch.number
  /\ batch.epoch_num < state.epoch.number + SeqWindowSize
  /\ \E i \in 1..Len(epoch_history(state)) :
        LET e == epoch_history(state)[i]
        IN  /\ e.number = batch.epoch_num
            /\ e.hash = batch.epoch_hash
            /\ batch.timestamp >= e.timestamp
            /\ batch.timestamp <= e.timestamp + MaxSequencerDrift
  /\ \A i \in 1..Len(batch.transactions) :
        batch.transactions[i].rlp.type # 126

\* Batches::next: the first valid batch received for the next L2 slot;
\* without one, an empty batch of the next epoch once the safe head has
\* reached that epoch's timestamp. Batches of the next slot and of earlier
\* slots leave the queue.
Batches_next(op_batches) ==
  LET state == op_batches.state
      next_timestamp == state.safe_head.timestamp + BlockTime
      kept == SelectSeq(op_batches.batches,
                        LAMBDA b : b.timestamp > next_timestamp)
      eligible == SelectSeq(op_batches.batches,
                            LAMBDA b : /\ b.timestamp = next_timestamp
                                       /\ batch_valid(state, b))
      nxt == next_epoch(state)
      after == [op_batches EXCEPT !.batches = kept]
  IN  IF Len(eligible) > 0
      THEN [batch |-> Some(eligible[1]), op_batches |-> after,
            synthesized |-> FALSE]
      ELSE IF IsSome(nxt) /\ state.safe_head.timestamp >= nxt.some.timestamp
           THEN [batch |-> Some([parent_hash |-> state.safe_head.hash,
                                 epoch_num |-> nxt.some.number,
                                 epoch_hash |-> nxt.some.hash,
                                 timestamp |-> next_timestamp,
                                 transactions |-> <<>>]),
                 op_batches |-> after,
                 synthesized |-> TRUE]
           ELSE [batch |-> None, op_batches |-> after, synthesized |-> FALSE]

(* ------------- batcher transactions and channels (spec 4.4, 4.5) ------- *)

\* ChainConfig::optimism(): a channel lives this many L1 blocks past the
\* block it was first seen in.
ChannelTimeout == 1

\* ChainConfig::optimism(): the most data, in chunks, a channel may hold.
MaxChannelSize == 6

\* The calldata of the transactions of the block that go to the batch
\* inbox and come from batch_sender, in block order: the positions in the
\* block of the transactions accepted.
RECURSIVE accepted_transactions(_, _, _)
accepted_transactions(batch_sender, txs, k) ==
  IF k > Len(txs) THEN <<>>
  ELSE (IF txs[k].essence.to = BatchInbox /\ txs[k].from = batch_sender
        THEN <<k>> ELSE <<>>)
       \o accepted_transactions(batch_sender, txs, k + 1)

\* The frames of a calldata blob; a blob with another version than 0 is
\* rejected whole.
blob_frames(data) ==
  IF data.version = 0 THEN data.frames ELSE <<>>

\* The frames of the accepted transactions, in block order.
RECURSIVE batcher_frames(_, _)
batcher_frames(txs, positions) ==
  IF Len(positions) = 0 THEN <<>>
  ELSE blob_frames(txs[Head(positions)].essence.data)
       \o batcher_frames(txs, Tail(positions))

\* The frame numbers a channel holds.
frame_numbers(channel) ==
  {channel.frames[k].frame_number : k \in 1..Len(channel.frames)}

\* The frame of a channel that is marked last, if it has one.
last_frames(channel) ==
  {k \in 1..Len(channel.frames) : channel.frames[k].is_last}

\* The size of a channel: the chunks of its frames.
RECURSIVE channel_size(_)
channel_size(frames) ==
  IF Len(frames) = 0 THEN 0
  ELSE Len(Head(frames).frame_data) + channel_size(Tail(frames))

\* A frame enters the bank at L1 block l1_no: it opens a channel when none
\* of its id is open (behind the channels seen before, and behind those of
\* the same block with a lower id), else it is kept unless the channel
\* already has its frame number or its last frame twice; a channel grown
\* past the size is dropped.
add_frame(bank, frame, l1_no) ==
  LET channels == bank.channels
      at == {k \in 1..Len(channels) : channels[k].id = frame.channel_id}
  IN  IF at = {}
      THEN LET before == SelectSeq(channels,
                           LAMBDA c : c.first_seen < l1_no \/ c.id < frame.channel_id)
               after == SelectSeq(channels,
                          LAMBDA c : ~(c.first_seen < l1_no \/ c.id < frame.channel_id))
           IN  [bank EXCEPT !.channels =
                  before
                  \o <<[id |-> frame.channel_id, first_seen |-> l1_no,
                        frames |-> <<frame>>]>>
                  \o after]
      ELSE LET k == CHOOSE k \in at : TRUE
               grown == [channels[k] EXCEPT !.frames = Append(@, frame)]
           IN  IF \/ frame.frame_number \in frame_numbers(channels[k])
                  \/ frame.is_last /\ last_frames(channels[k]) # {}
               THEN bank
               ELSE IF channel_size(grown.frames) > MaxChannelSize
               THEN [bank EXCEPT
                       !.channels = SelectSeq(channels, LAMBDA c : c.id # frame.channel_id),
                       !.closed = Append(@, [channel |-> grown, at |-> l1_no,
                                             how |-> "oversize", batches |-> <<>>])]
               ELSE [bank EXCEPT !.channels[k] = grown]

RECURSIVE add_frames(_, _, _)
add_frames(bank, frames, l1_no) ==
  IF Len(frames) = 0 THEN bank
  ELSE add_frames(add_frame(bank, Head(frames), l1_no), Tail(frames), l1_no)

\* timed_out with the channel's time one block shorter.
timed_out_early(channel, l1_no) == l1_no >= channel.first_seen + ChannelTimeout

\* A channel whose time is over: the current L1 number is past the block
\* it was first seen in by more than the timeout.
timed_out(channel, l1_no) == l1_no > channel.first_seen + ChannelTimeout

\* The channels timed out at L1 block l1_no leave the bank.
RECURSIVE drop_timed_out(_, _)
drop_timed_out(bank, l1_no) ==
  IF \A k \in 1..Len(bank.channels) : ~timed_out(bank.channels[k], l1_no)
  THEN bank
  ELSE LET k == CHOOSE k \in 1..Len(bank.channels) :
                  /\ timed_out(bank.channels[k], l1_no)
                  /\ \A j \in 1..(k - 1) : ~timed_out(bank.channels[j], l1_no)
           c == bank.channels[k]
       IN  drop_timed_out(
             [bank EXCEPT
                !.channels = SelectSeq(bank.channels, LAMBDA d : d.id # c.id),
                !.closed = Append(@, [channel |-> c, at |-> l1_no,
                                      how |-> "timed_out", batches |-> <<>>])],
             l1_no)

\* A channel is complete when it has its last frame and every frame below.
channel_complete(channel) ==
  \E k \in last_frames(channel) :
    \A n \in 0..channel.frames[k].frame_number : n \in frame_numbers(channel)

RECURSIVE frames_data_as_arrived(_, _, _)
RECURSIVE frames_data(_, _, _)

\* frames_data with the frames taken in the order they arrived.
frames_data_as_arrived(channel, n, last) ==
  IF n > last THEN <<>>
  ELSE channel.frames[n + 1].frame_data
       \o frames_data_as_arrived(channel, n + 1, last)

\* The data of a complete channel: the data of its frames from frame 0 to
\* the last one, in the order of the frame numbers.
frames_data(channel, n, last) ==
  IF n > last THEN <<>>
  ELSE LET k == CHOOSE k \in 1..Len(channel.frames) :
                  channel.frames[k].frame_number = n
       IN  channel.frames[k].frame_data \o frames_data(channel, n + 1, last)

channel_data(channel) ==
  LET k == CHOOSE k \in last_frames(channel) : TRUE
  IN  frames_data(channel, 0, channel.frames[k].frame_number)

\* The stream of a channel read as batches: each batch is a head followed
\* by a body; any other stream does not decode.
RECURSIVE read_batches(_)
read_batches(stream) ==
  IF Len(stream) = 0 THEN Some(<<>>)
  ELSE IF Len(stream) = 1 THEN None
  ELSE IF stream[1].part # "head" \/ stream[2].part # "body" THEN None
  ELSE LET rest == read_batches(SubSeq(stream, 3, Len(stream)))
       IN  IF ~IsSome(rest) THEN None
           ELSE Some(<<[parent_hash |-> stream[1].parent_hash,
                        epoch_num |-> stream[1].epoch_num,
                        epoch_hash |-> stream[1].epoch_hash,
                        timestamp |-> stream[1].timestamp,
                        transactions |-> stream[2].transactions]>>
                     \o rest.some)

\* The complete channels leave the bank in its order, and the batches of
\* those that decode enter the queue.
RECURSIVE read_channels(_, _)
read_channels(bank, l1_no) ==
  IF \A k \in 1..Len(bank.channels) : ~channel_complete(bank.channels[k])
  THEN bank
  ELSE LET k == CHOOSE k \in 1..Len(bank.channels) :
                  /\ channel_complete(bank.channels[k])
                  /\ \A j \in 1..(k - 1) : ~channel_complete(bank.channels[j])
           c == bank.channels[k]
           read == read_batches(channel_data(c))
       IN  read_channels(
             [bank EXCEPT
                !.channels = SelectSeq(bank.channels, LAMBDA d : d.id # c.id),
                !.batches = IF IsSome(read) THEN @ \o read.some ELSE @,
                !.closed = Append(@, [channel |-> c, at |-> l1_no,
                                      how |-> IF IsSome(read) THEN "completed"
                                              ELSE "undecodable",
                                      batches |-> IF IsSome(read) THEN read.some
                                                  ELSE <<>>])],
             l1_no)

\* Batches::process: the channels timed out at this block are dropped,
\* the frames of the block's batcher transactions enter the bank, and the
\* batches of the channels they complete enter the queue.
Batches_process(op_batches, eth_block) ==
  LET l1_no == eth_block.block_header.number
      positions == accepted_transactions(
                     op_batches.config.system_config.batch_sender,
                     eth_block.transactions, 1)
      frames == batcher_frames(eth_block.transactions, positions)
      logged == [op_batches EXCEPT
                   !.accepted = Append(@, [l1_no |-> l1_no,
                                           positions |-> positions])]
  IN  read_channels(add_frames(drop_timed_out(logged, l1_no), frames, l1_no),
                    l1_no)

(* ----------------------------- DeriveMachine --------------------------- *)

\* OpSystemInfoCalls::abi_encode of a setL1BlockValues call.
abi_encode(set_l1_block_values) ==
  [selector |-> "setL1BlockValues", args |-> set_l1_block_values]

\* OpSystemInfoCalls::abi_decode(data, true): the call, when the data
\* holds one.
abi_decode(data) ==
  IF "selector" \in DOMAIN data /\ data.selector = "setL1BlockValues"
  THEN Some(data.args)
  ELSE None

\* Address::from_slice(&batcher_hash[12..]): the low 20 bytes.
batcher_address(batcher_hash) == batcher_hash.low20

\* all_zero.concat_const(batch_sender): 12 zero bytes, then the address.
batcher_hash_of(batch_sender) == [high12 |-> 0, low20 |-> batch_sender]

\* u64 addition: the sum when it fits; otherwise a panic in a build with
\* overflow checks and the wrapped sum in a build without.
AddU64(a, b, checks) ==
  IF a + b <= U64Max THEN [status |-> "ok", value |-> a + b]
  ELSE IF checks THEN [status |-> "panic", value |-> 0]
  ELSE [status |-> "ok", value |-> (a + b) % (U64Max + 1)]

\* A machine that was not constructed: what is left is the input, with
\* the witnesses taken so far removed.
NoMachine(derive_input, db) ==
  [derive_input |-> [derive_input EXCEPT !.db = db]]

\* new without its check of the L1 head's hash.
eth_head_hash_unchecked(eth_head_hash, set_l1_block_values) == TRUE

\* new's check of the L1 head: the hash of the header witness is the hash
\* the L2 head's system transaction carries.
eth_head_hash_ok(eth_head_hash, set_l1_block_values) ==
  eth_head_hash = set_l1_block_values.hash

\* DeriveMachine::new
new(derive_input) ==
  LET op_block_no == derive_input.op_head_block_no
      r1 == get_full_op_block(derive_input.db, op_block_no)
  IN
  IF r1.status # "ok"
  THEN [status |-> r1.status, machine |-> NoMachine(derive_input, r1.db)]
  ELSE
  LET op_head == r1.value
      op_head_block_hash == HeaderHash(op_head.block_header)
      call == IF Len(op_head.transactions) = 0 THEN None
              ELSE abi_decode(op_head.transactions[1].essence.data)
  IN
  IF ~IsSome(call)
  THEN [status |-> "panic", machine |-> NoMachine(derive_input, r1.db)]
  ELSE
  LET set_l1_block_values == call.some
      op_block_seq_no == set_l1_block_values.sequence_number
      eth_block_no == set_l1_block_values.number
      r2 == get_eth_block_header(r1.db, eth_block_no)
  IN
  IF r2.status # "ok"
  THEN [status |-> r2.status, machine |-> NoMachine(derive_input, r2.db)]
  ELSE
  LET eth_head == r2.value
      eth_head_hash == HeaderHash(eth_head)
  IN
  IF ~eth_head_hash_ok(eth_head_hash, set_l1_block_values)
  THEN [status |-> "error", machine |-> NoMachine(derive_input, r2.db)]
  ELSE IF ~FitsU64(op_head.block_header.timestamp) \/ ~FitsU64(eth_head.timestamp)
  THEN [status |-> "panic", machine |-> NoMachine(derive_input, r2.db)]
  ELSE
  [status |-> "ok",
   machine |->
     [derive_input |-> [derive_input EXCEPT !.db = r2.db],
      op_head_block_hash |-> op_head_block_hash,
      op_block_no |-> op_block_no,
      op_block_seq_no |-> op_block_seq_no,
      op_batches |->
        [config |->
           [system_config |->
              [batch_sender |-> batcher_address(set_l1_block_values.batcher_hash),
               l1_fee_overhead |-> set_l1_block_values.l1_fee_overhead,
               l1_fee_scalar |-> set_l1_block_values.l1_fee_scalar]],
         state |->
           State_new(eth_block_no, eth_head_hash,
                     [hash |-> op_head_block_hash,
                      timestamp |-> op_head.block_header.timestamp],
                     [number |-> eth_block_no,
                      hash |-> eth_head_hash,
                      timestamp |-> eth_head.timestamp,
                      base_fee_per_gas |-> eth_head.base_fee_per_gas,
                      deposits |-> <<>>]),
         channels |-> <<>>,
         batches |-> <<>>,
         accepted |-> <<>>,
         closed |-> <<>>],
      eth_block_no |-> eth_block_no]]

\* DeriveMachine::derive_system_transaction
derive_system_transaction(machine, op_batch) ==
  LET batcher_hash ==
        batcher_hash_of(machine.op_batches.config.system_config.batch_sender)
      set_l1_block_values ==
        [number |-> machine.op_batches.state.epoch.number,
         timestamp |-> machine.op_batches.state.epoch.timestamp,
         basefee |-> machine.op_batches.state.epoch.base_fee_per_gas,
         hash |-> machine.op_batches.state.epoch.hash,
         sequence_number |-> machine.op_block_seq_no,
         batcher_hash |-> batcher_hash,
         l1_fee_overhead |-> machine.op_batches.config.system_config.l1_fee_overhead,
         l1_fee_scalar |-> machine.op_batches.config.system_config.l1_fee_scalar]
      source_hash ==
        [keccak |-> <<1, [keccak |-> <<op_batch.epoch_hash,
                                       machine.op_block_seq_no>>]>>]
  IN  [essence |->
         [kind |-> "OptimismDeposited",
          source_hash |-> source_hash,
          from |-> "deaddeaddeaddeaddeaddeaddeaddeaddead0001",
          to |-> "4200000000000000000000000000000000000015",
          mint |-> 0,
          value |-> 0,
          gas_limit |-> 1000000,
          is_system_tx |-> FALSE,
          data |-> abi_encode(set_l1_block_values)],
       signature |-> 0]

\* process_next_eth_block without its check of the parent.
eth_parent_unchecked(eth_block, state, eth_block_no) == TRUE

\* process_next_eth_block, "Ensure block has correct parent": a block past
\* the current L1 block has the current L1 block's hash as parent_hash.
eth_parent_ok(eth_block, state, eth_block_no) ==
  state.current_l1_block_number < eth_block_no =>
    eth_block.block_header.parent_hash = state.current_l1_block_hash

\* process_next_eth_block, "Update the system config", with no update made.
update_system_config_never(system_config, eth_block) ==
  [status |-> "ok", system_config |-> system_config]

\* process_next_eth_block, "Update the system config": a block that comes
\* with receipts updates the config from them.
update_system_config(system_config, eth_block) ==
  IF IsSome(eth_block.receipts)
  THEN system_config_update(system_config, eth_block)
  ELSE [status |-> "ok", system_config |-> system_config]

\* process_next_eth_block with the config update applied after the block
\* is fed to the batch queue.
process_next_eth_block_update_last(machine, checks) ==
  LET r == get_full_eth_block(machine.derive_input.db, machine.eth_block_no)
      m1 == [machine EXCEPT !.derive_input.db = r.db]
  IN
  IF r.status # "ok" THEN [status |-> r.status, machine |-> m1]
  ELSE
  LET eth_block == r.value
      eth_block_hash == HeaderHash(eth_block.block_header)
      state == machine.op_batches.state
  IN
  IF ~eth_parent_ok(eth_block, state, machine.eth_block_no)
  THEN [status |-> "panic", machine |-> m1]
  ELSE
  LET upd == update_system_config(machine.op_batches.config.system_config,
                                  eth_block)
  IN
  IF upd.status # "ok" THEN [status |-> "error", machine |-> m1]
  ELSE
  LET m2 == [m1 EXCEPT !.op_batches.config.system_config = upd.system_config]
  IN
  IF ~FitsU64(eth_block.block_header.timestamp)
  THEN [status |-> "panic", machine |-> m2]
  ELSE
  LET epoch == [number |-> machine.eth_block_no,
                hash |-> eth_block_hash,
                timestamp |-> eth_block.block_header.timestamp,
                base_fee_per_gas |-> eth_block.block_header.base_fee_per_gas,
                deposits |-> extract_transactions(eth_block)]
      m3 == [m1 EXCEPT !.op_batches.state = push_epoch(@, epoch)]
      m4 == [[m3 EXCEPT !.op_batches = Batches_process(@, eth_block)]
               EXCEPT !.op_batches.config.system_config = upd.system_config]
      m5 == [m4 EXCEPT !.op_batches.state.current_l1_block_number =
                          machine.eth_block_no,
                       !.op_batches.state.current_l1_block_hash = eth_block_hash]
      inc == AddU64(machine.eth_block_no, 1, checks)
  IN
  IF inc.status # "ok" THEN [status |-> "panic", machine |-> m5]
  ELSE [status |-> "ok", machine |-> [m5 EXCEPT !.eth_block_no = inc.value]]

\* DeriveMachine::process_next_eth_block
process_next_eth_block(machine, checks) ==
  LET r == get_full_eth_block(machine.derive_input.db, machine.eth_block_no)
      m1 == [machine EXCEPT !.derive_input.db = r.db]
  IN
  IF r.status # "ok" THEN [status |-> r.status, machine |-> m1]
  ELSE
  LET eth_block == r.value
      eth_block_hash == HeaderHash(eth_block.block_header)
      state == machine.op_batches.state
  IN
  IF ~eth_parent_ok(eth_block, state, machine.eth_block_no)
  THEN [status |-> "panic", machine |-> m1]
  ELSE
  LET upd == update_system_config(machine.op_batches.config.system_config,
                                  eth_block)
  IN
  IF upd.status # "ok" THEN [status |-> "error", machine |-> m1]
  ELSE
  LET m2 == [m1 EXCEPT !.op_batches.config.system_config = upd.system_config]
  IN
  IF ~FitsU64(eth_block.block_header.timestamp)
  THEN [status |-> "panic", machine |-> m2]
  ELSE
  LET epoch == [number |-> machine.eth_block_no,
                hash |-> eth_block_hash,
                timestamp |-> eth_block.block_header.timestamp,
                base_fee_per_gas |-> eth_block.block_header.base_fee_per_gas,
                deposits |-> extract_transactions(eth_block)]
      m3 == [m2 EXCEPT !.op_batches.state = push_epoch(@, epoch)]
      m4 == [m3 EXCEPT !.op_batches = Batches_process(@, eth_block)]
      m5 == [m4 EXCEPT !.op_batches.state.current_l1_block_number =
                          machine.eth_block_no,
                       !.op_batches.state.current_l1_block_hash = eth_block_hash]
      inc == AddU64(machine.eth_block_no, 1, checks)
  IN
  IF inc.status # "ok" THEN [status |-> "panic", machine |-> m5]
  ELSE [status |-> "ok", machine |-> [m5 EXCEPT !.eth_block_no = inc.value]]

\* update_sequence_number that hands out the current epoch's deposits in
\* every block, not only in the block that adopts the epoch.
update_sequence_number_deposits_always(machine, op_batch, checks) ==
  LET next_no == AddU64(machine.op_batches.state.epoch.number, 1, checks)
  IN
  IF next_no.status # "ok"
  THEN [status |-> next_no.status, machine |-> machine, deposits |-> <<>>]
  ELSE
  IF op_batch.epoch_num = next_no.value
  THEN LET r == do_next_epoch(machine.op_batches.state)
           m1 == [machine EXCEPT !.op_block_seq_no = 0,
                                 !.op_batches.state = r.state]
       IN  [status |-> r.status,
            machine |-> m1,
            deposits |-> SeqMap(to_rlp, m1.op_batches.state.epoch.deposits)]
  ELSE LET inc == AddU64(machine.op_block_seq_no, 1, checks)
       IN  [status |-> inc.status,
            machine |-> [machine EXCEPT !.op_block_seq_no = inc.value],
            deposits |-> SeqMap(to_rlp, machine.op_batches.state.epoch.deposits)]

\* The sequence number and the deposits of the block of op_batch (derive,
\* "Update sequence number"): a batch of the epoch after the current one
\* adopts that epoch.
update_sequence_number(machine, op_batch, checks) ==
  LET next_no == AddU64(machine.op_batches.state.epoch.number, 1, checks)
  IN
  IF next_no.status # "ok"
  THEN [status |-> next_no.status, machine |-> machine, deposits |-> <<>>]
  ELSE
  IF op_batch.epoch_num = next_no.value
  THEN LET r == do_next_epoch(machine.op_batches.state)
           m1 == [machine EXCEPT !.op_block_seq_no = 0,
                                 !.op_batches.state = r.state]
       IN  [status |-> r.status,
            machine |-> m1,
            deposits |-> SeqMap(to_rlp, m1.op_batches.state.epoch.deposits)]
  ELSE LET inc == AddU64(machine.op_block_seq_no, 1, checks)
       IN  [status |-> inc.status,
            machine |-> [machine EXCEPT !.op_block_seq_no = inc.value],
            deposits |-> <<>>]

\* derived_transactions that leaves the deposits out.
derived_transactions_without_deposits(machine, op_batch, deposits) ==
  <<to_rlp(derive_system_transaction(machine, op_batch))>>
    \o op_batch.transactions

\* The transactions the block of op_batch must hold (derive,
\* derived_transactions): the system transaction, the deposits, the
\* batch's transactions.
derived_transactions(machine, op_batch, deposits) ==
  <<to_rlp(derive_system_transaction(machine, op_batch))>>
    \o deposits \o op_batch.transactions

\* derive without its check of the parent.
parent_unchecked(new_op_head, safe_head) == TRUE

\* derive's check of the new op head's parent.
parent_ok(new_op_head, safe_head) == new_op_head.parent_hash = safe_head.hash

\* derive without its check of the transactions root.
transactions_unchecked(txs, new_op_head) == TRUE

\* derive's check of the new op head's transactions: the root of the trie
\* of the derived transactions is the header's.
transactions_ok(txs, new_op_head) ==
  TrieRoot(txs) = new_op_head.transactions_root

\* DeriveOutput, as derive builds it on return.
derive_output(machine, derived_op_blocks) ==
  [eth_tail |-> <<machine.op_batches.state.current_l1_block_number,
                  machine.op_batches.state.current_l1_block_hash>>,
   op_head |-> <<machine.derive_input.op_head_block_no,
                 machine.op_head_block_hash>>,
   derived_op_blocks |-> derived_op_blocks]

\* A failed step that hands the caller what was derived so far.
abort_with_partial_output(output, machine, derived) ==
  Some(derive_output(machine, derived))

\* The `?` of derive: a failed step ends the call with the error, and the
\* list derived so far is dropped with the call's frame.
abort(output, machine, derived) == output

\* What one pass of the batch loop of derive leaves behind.
Pass(st, machine, derived, info) ==
  [status |-> st, machine |-> machine, derived |-> derived, info |-> info]

\* One pass of the batch loop of derive, for the batch op_batch that
\* Batches::next returned: the machine after it and the (number, hash)
\* pair pushed, if any.
process_batch(machine0, op_batch, checks) ==
  LET inc == AddU64(machine0.op_block_no, 1, checks)
      before == [op_batch |-> op_batch,
                 safe_head |-> machine0.op_batches.state.safe_head,
                 epoch |-> machine0.op_batches.state.epoch,
                 op_block_seq_no |-> machine0.op_block_seq_no,
                 fed |-> Len(machine0.op_batches.accepted)]
  IN
  IF inc.status # "ok" THEN Pass("panic", machine0, None, before)
  ELSE
  LET m1 == [machine0 EXCEPT !.op_block_no = inc.value]
      upd == update_sequence_number(m1, op_batch, checks)
  IN
  IF upd.status # "ok" THEN Pass(upd.status, upd.machine, None, before)
  ELSE
  LET r == get_op_block_header(upd.machine.derive_input.db, upd.machine.op_block_no)
      m2 == [upd.machine EXCEPT !.derive_input.db = r.db]
  IN
  IF r.status # "ok" THEN Pass(r.status, m2, None, before)
  ELSE
  LET new_op_head == r.value
      txs == derived_transactions(m2, op_batch, upd.deposits)
      info == before @@ [new_op_head |-> new_op_head,
                         deposits |-> upd.deposits,
                         derived_transactions |-> txs,
                         epoch_after |-> m2.op_batches.state.epoch,
                         seq_no_after |-> m2.op_block_seq_no]
  IN
  IF ~parent_ok(new_op_head, m2.op_batches.state.safe_head)
  THEN Pass("panic", m2, None, info)
  ELSE IF ~transactions_ok(txs, new_op_head)
  THEN Pass("error", m2, None, info)
  ELSE IF ~FitsU64(new_op_head.timestamp)
  THEN Pass("panic", m2, None, info)
  ELSE
  Pass("ok",
       [m2 EXCEPT !.op_batches.state.safe_head =
                     [hash |-> HeaderHash(new_op_head),
                      timestamp |-> new_op_head.timestamp]],
       Some(<<new_op_head.number, HeaderHash(new_op_head)>>),
       info)

(* ------------------------------ the inputs ----------------------------- *)
(* The witness databases tried: the L1 and L2 chains a sequencer built    *)
(* under a scenario scn, as the host stores them, with at most one        *)
(* witness of the scenario's choice spoiled (scn.fault).                   *)

\* Number of full L1 blocks in the database, the first is the head's epoch.
MaxEthBlocks == 4

Chain == [l1_number |-> 3, l2_timestamp |-> 10, base_fee |-> 7,
          fee_overhead |-> 1, fee_scalar |-> 1, new_fee_scalar |-> 2]

Header(number, parent_hash, timestamp, transactions_root, receipts_root, bloom, extra) ==
  [number |-> number, parent_hash |-> parent_hash, timestamp |-> timestamp,
   base_fee_per_gas |-> Chain.base_fee, transactions_root |-> transactions_root,
   receipts_root |-> receipts_root, logs_bloom |-> bloom, extra |-> extra]

RootHash == [keccak |-> [genesis |-> TRUE]]

Fault(scn, what, idx, kind) == scn.fault = <<what, idx, kind>>

\* The user transaction of L2 block i, as the bytes a batch carries.
UserTx(i) == to_rlp([type |-> 2, nonce |-> i])

UserTxs(scn, i) == IF scn.blocks[i].txs = 1 THEN <<UserTx(i)>> ELSE <<>>

\* The number of L1 block j, a u64 that wraps.
EthNumber(scn, j) == (scn.l1_no + j) % (U64Max + 1)

\* The index (from the head's epoch) of the epoch of L2 block i.
RECURSIVE EpochIdx(_, _)
EpochIdx(scn, i) == IF i = 0 THEN 0 ELSE EpochIdx(scn, i - 1) + scn.blocks[i].delta

\* The index of the epoch the batch of L2 block i names: the block's own,
\* or (scn.skip, for the second block) the epoch two after it.
BatchEpochIdx(scn, i) ==
  EpochIdx(scn, i) + (IF scn.skip /\ i = 2 THEN 2 ELSE 0)

\* The sequence number of L2 block i, a u64 that wraps.
RECURSIVE SeqNo(_, _)
SeqNo(scn, i) ==
  IF i = 0 THEN scn.seq0
  ELSE IF scn.blocks[i].delta = 1 THEN 0
  ELSE (SeqNo(scn, i - 1) + 1) % (U64Max + 1)

\* The index of the last L1 block processed when L2 block i is derived.
RECURSIVE ProcIdx(_, _)
ProcIdx(scn, i) ==
  IF i = 0 THEN 0
  ELSE LET p == ProcIdx(scn, i - 1)
           q == IF scn.blocks[i].post = 0 THEN EpochIdx(scn, i) ELSE scn.blocks[i].post
       IN  IF p > q THEN p ELSE q

\* The logs of L1 block j: a deposit in block 1, a config update in block 2.
EthLogs(scn, j) ==
  (IF j = 1 /\ scn.deposit
   THEN <<[address |-> DepositContract, topic |-> "TransactionDeposited",
           from |-> "alice", to |-> "bob", data |-> "mint"]>>
   ELSE <<>>)
  \o
  (IF j = 2 /\ scn.update # "none"
   THEN <<[address |-> SystemConfigContract, topic |-> "ConfigUpdate",
           version |-> 0, update_type |-> scn.update,
           value |-> IF scn.update = "BatcherAddress" THEN "batcherB"
                     ELSE Chain.new_fee_scalar]>>
   ELSE <<>>)

EthBloom(scn, j) == {EthLogs(scn, j)[k].address : k \in 1..Len(EthLogs(scn, j))}

\* Blocks without logs come without receipts (odd j) or with one receipt
\* that holds no log (even j).
EthReceipts(scn, j) ==
  IF Fault(scn, "eth", j, "no_receipts") THEN None
  ELSE IF Len(EthLogs(scn, j)) = 0 /\ j % 2 = 1 THEN None
  ELSE Some(<<[logs |-> EthLogs(scn, j)]>>)

\* The timestamp of L1 block j: the blocks follow the head's epoch at the
\* L2 block time, or (scn.l1_slow) after a gap of twice that.
EthTimestamp(scn, j) ==
  Chain.l2_timestamp - BlockTime + j * BlockTime
    + (IF scn.l1_slow /\ j > 0 THEN BlockTime ELSE 0)

RECURSIVE EthHeader(_, _)
RECURSIVE OpHeader(_, _)
RECURSIVE EthTransactions(_, _)

\* The header of L1 block j on the chain the sequencer follows. The witness
\* may hold, under the number of the first L1 block, a block of another
\* chain.
L1Header(scn, j) == [EthHeader(scn, j) EXCEPT !.extra = 0]

\* The batch of L2 block i, as the batcher posts it.
SequencerBatch(scn, i) ==
  [parent_hash |-> HeaderHash(OpHeader(scn, i - 1)),
   epoch_num |-> EthNumber(scn, BatchEpochIdx(scn, i)),
   epoch_hash |-> HeaderHash(L1Header(scn, BatchEpochIdx(scn, i))),
   timestamp |-> Chain.l2_timestamp + i * BlockTime,
   transactions |-> UserTxs(scn, i)]

\* A batch as the chunks of a channel's stream: its head, then its body.
encode_batch(batch) ==
  <<[part |-> "head", parent_hash |-> batch.parent_hash,
     epoch_num |-> batch.epoch_num, epoch_hash |-> batch.epoch_hash,
     timestamp |-> batch.timestamp],
    [part |-> "body", transactions |-> batch.transactions]>>

RECURSIVE encode_batches(_)
encode_batches(batches) ==
  IF Len(batches) = 0 THEN <<>>
  ELSE encode_batch(Head(batches)) \o encode_batches(Tail(batches))

Frame(channel_id, frame_number, frame_data, is_last) ==
  [channel_id |-> channel_id, frame_number |-> frame_number,
   frame_data |-> frame_data, is_last |-> is_last]

\* A transaction to the batch inbox that carries the frames.
BatcherTx(from, frames, signature) ==
  [essence |-> [to |-> BatchInbox, data |-> [version |-> 0, frames |-> frames]],
   from |-> from, signature |-> signature]

\* The L2 blocks whose batches are posted in L1 block j.
Posted(scn, j) ==
  SelectSeq([i \in 1..Len(scn.blocks) |-> i],
            LAMBDA i : j > 0 /\ scn.blocks[i].post = j)

\* The batches the batcher posts in L1 block j.
PostedBatches(scn, j) ==
  [k \in 1..Len(Posted(scn, j)) |-> SequencerBatch(scn, Posted(scn, j)[k])]

\* The address the batcher sends from in L1 block j: after a change of the
\* batcher address in block 2 the new one, if the batcher has switched.
BatcherOf(scn, j) ==
  IF scn.update = "BatcherAddress" /\ j >= 2 /\ scn.switched
  THEN "batcherB" ELSE "batcherA"

\* The part of the channel opened in block c that the batcher sends in L1
\* block j. The channel of block 1 is sent as scn.framing says: in one
\* frame; in two frames of one blob, the last one first; in two frames,
\* the last one a block later; the last one two blocks later; in two
\* frames neither of which is the last. Every other channel is one frame.
ChannelPart(scn, c, j) ==
  LET framing == IF c = 1 THEN scn.framing ELSE "single"
  IN  IF j = c
      THEN (IF framing = "single" THEN "whole"
            ELSE IF framing = "reversed" THEN "reversed"
            ELSE IF framing = "never" THEN "open"
            ELSE "first")
      ELSE IF \/ framing = "two_blocks" /\ j = c + 1
              \/ framing = "late" /\ j = c + ChannelTimeout + 1
      THEN "last"
      ELSE "none"

\* The frames of a part of the channel with id c that carries the batches.
ChannelFrames(c, batches, part) ==
  LET stream == encode_batches(batches)
      first == Frame(c, 0, SubSeq(stream, 1, 1), FALSE)
      rest(is_last) == Frame(c, 1, SubSeq(stream, 2, Len(stream)), is_last)
  IN  IF Len(stream) = 0 \/ part = "none" THEN <<>>
      ELSE IF part = "whole" THEN <<Frame(c, 0, stream, TRUE)>>
      ELSE IF part = "reversed" THEN <<rest(TRUE), first>>
      ELSE IF part = "first" THEN <<first>>
      ELSE IF part = "last" THEN <<rest(TRUE)>>
      ELSE <<first, rest(FALSE)>>

\* The transactions of L1 block j, given the batches posted in it (own)
\* and those of the first channel if it ends in this block (earlier): one
\* to another address; the frames that end the first channel; after a
\* change of the batcher address, a channel from the address the batcher
\* does not use, with other batches for the same slots; the frames of the
\* block's own channel.
BlockTransactions(scn, j, own, earlier) ==
  LET other == IF BatcherOf(scn, j) = "batcherA" THEN "batcherB" ELSE "batcherA"
      decoy == [k \in 1..Len(own) |->
                  [own[k] EXCEPT !.transactions = <<UserTx(U64Max)>>]]
      own_frames == ChannelFrames(j, own, ChannelPart(scn, j, j))
  IN  <<[essence |-> [to |-> "other", data |-> [version |-> 0, frames |-> <<>>]],
         from |-> "alice", signature |-> j]>>
      \o
      (IF Len(earlier) > 0
       THEN <<BatcherTx(BatcherOf(scn, j), ChannelFrames(1, earlier, "last"),
                        j + MaxEthBlocks)>>
       ELSE <<>>)
      \o
      (IF scn.update = "BatcherAddress" /\ j >= 2 /\ Len(own) > 0
       THEN <<BatcherTx(other, ChannelFrames(j + MaxEthBlocks, decoy, "whole"), 0)>>
       ELSE <<>>)
      \o
      (IF Len(own_frames) > 0 THEN <<BatcherTx(BatcherOf(scn, j), own_frames, j)>>
       ELSE <<>>)

\* The transactions of L1 block j.
EthTransactions(scn, j) ==
  CHOOSE txs \in
    {BlockTransactions(scn, j, own, earlier) :
       own \in {PostedBatches(scn, j)},
       earlier \in {IF j > 1 /\ ChannelPart(scn, 1, j) = "last"
                    THEN PostedBatches(scn, 1) ELSE <<>>}} : TRUE

EthHeader(scn, j) ==
  Header(IF Fault(scn, "eth", j, "bad_number") THEN EthNumber(scn, j + 1)
         ELSE EthNumber(scn, j),
         IF j = 0 THEN RootHash
         ELSE IF Fault(scn, "eth", j, "bad_parent")
              THEN HeaderHash([EthHeader(scn, j - 1) EXCEPT !.extra = 1])
              ELSE HeaderHash(EthHeader(scn, j - 1)),
         IF Fault(scn, "eth", j, "huge_timestamp") THEN U64Max + 1
         ELSE EthTimestamp(scn, j),
         IF Fault(scn, "eth", j, "bad_tx_root") THEN TrieRoot(<<>>)
         ELSE TrieRoot(SeqMap(to_rlp, EthTransactions(scn, j))),
         IF Fault(scn, "eth", j, "bad_receipts_root") THEN TrieRoot(SeqMap(to_rlp, <<[logs |-> <<>>], [logs |-> <<>>]>>))
         ELSE TrieRoot(SeqMap(to_rlp, <<[logs |-> EthLogs(scn, j)]>>)),
         EthBloom(scn, j),
         IF j = 0 /\ Fault(scn, "eth", 0, "forked") THEN 1 ELSE 0)

\* The L1 attributes transaction the sequencer puts first in L2 block i.
SequencerSystemTx(scn, i) ==
  LET e == L1Header(scn, EpochIdx(scn, i))
      updated == scn.update # "none" /\ ProcIdx(scn, i) >= 2
      seq == SeqNo(scn, i)
  IN  [essence |->
         [kind |-> "OptimismDeposited",
          source_hash |->
            [keccak |-> <<1, [keccak |->
               <<IF BatchEpochIdx(scn, i) = EpochIdx(scn, i) THEN HeaderHash(e)
                 ELSE HeaderHash(L1Header(scn, BatchEpochIdx(scn, i))),
                 seq>>]>>],
          from |-> "deaddeaddeaddeaddeaddeaddeaddeaddead0001",
          to |-> "4200000000000000000000000000000000000015",
          mint |-> 0, value |-> 0, gas_limit |-> 1000000, is_system_tx |-> FALSE,
          data |->
            [selector |-> IF Fault(scn, "op", i, "bad_calldata") THEN "other"
                          ELSE "setL1BlockValues",
             args |->
               [number |-> e.number,
                timestamp |-> e.timestamp,
                basefee |-> e.base_fee_per_gas,
                hash |-> IF Fault(scn, "op", i, "bad_l1_hash")
                         THEN HeaderHash([e EXCEPT !.extra = 1])
                         ELSE HeaderHash(e),
                sequence_number |-> seq,
                batcher_hash |->
                  [high12 |-> 0,
                   low20 |-> IF updated /\ scn.update = "BatcherAddress"
                             THEN "batcherB" ELSE "batcherA"],
                l1_fee_overhead |-> Chain.fee_overhead,
                l1_fee_scalar |-> IF updated /\ scn.update = "FeeScalar"
                                  THEN Chain.new_fee_scalar
                                  ELSE Chain.fee_scalar]]],
       signature |-> 0]

\* The deposits of L1 block j as L2 transactions.
SequencerDeposits(scn, j) ==
  LET logs == SelectSeq(EthLogs(scn, j), LAMBDA l : l.address = DepositContract)
  IN  [k \in 1..Len(logs) |-> DepositTx(HeaderHash(EthHeader(scn, j)), k - 1, logs[k])]

\* The transactions of L2 block i.
OpTransactions(scn, i) ==
  IF Fault(scn, "op", i, "no_transactions") THEN <<>>
  ELSE <<to_rlp(SequencerSystemTx(scn, i))>>
       \o (IF i > 0 /\ scn.blocks[i].delta = 1
           THEN SeqMap(to_rlp, SequencerDeposits(scn, EpochIdx(scn, i)))
           ELSE <<>>)
       \o (IF i > 0 THEN UserTxs(scn, i) ELSE <<>>)

OpHeader(scn, i) ==
  Header(IF Fault(scn, "op", i, "bad_number") THEN scn.head_no + i + 1
         ELSE scn.head_no + i,
         IF i = 0 THEN RootHash
         ELSE IF Fault(scn, "op", i, "bad_parent")
              THEN HeaderHash([OpHeader(scn, i - 1) EXCEPT !.extra = 1])
              ELSE HeaderHash(OpHeader(scn, i - 1)),
         IF Fault(scn, "op", i, "huge_timestamp") THEN U64Max + 1
         ELSE IF Fault(scn, "op", i, "late_timestamp")
              THEN Chain.l2_timestamp + i * BlockTime + 1
              ELSE Chain.l2_timestamp + i * BlockTime,
         IF Fault(scn, "op", i, "bad_tx_root") THEN TrieRoot(<<>>)
         ELSE TrieRoot(OpTransactions(scn, i)),
         TrieRoot(<<>>),
         {},
         0)

\* The witness database of the scenario.
WitnessDb(scn) ==
  LET op_numbers == {n \in scn.head_no + 1 .. scn.head_no + Len(scn.blocks) :
                       /\ n <= U64Max
                       /\ ~Fault(scn, "op", n - scn.head_no, "missing")}
      eth_indexes == {j \in 0..MaxEthBlocks - 1 : ~Fault(scn, "eth", j, "missing")}
      eth_numbers == {EthNumber(scn, j) : j \in eth_indexes}
      index(n) == CHOOSE j \in eth_indexes : EthNumber(scn, j) = n
  IN  [full_op_block |->
         [n \in (IF Fault(scn, "op", 0, "missing") THEN {} ELSE {scn.head_no}) |->
            [block_header |-> OpHeader(scn, 0),
             transactions |->
               IF Fault(scn, "op", 0, "no_transactions") THEN <<>>
               ELSE <<SequencerSystemTx(scn, 0)>>]],
       op_block_header |->
         [n \in op_numbers |-> OpHeader(scn, n - scn.head_no)],
       full_eth_block |->
         [n \in eth_numbers |->
            [block_header |-> EthHeader(scn, index(n)),
             transactions |-> EthTransactions(scn, index(n)),
             receipts |-> EthReceipts(scn, index(n))]],
       eth_block_header |->
         [n \in (IF Fault(scn, "eth_header", 0, "missing") THEN {}
                 ELSE {EthNumber(scn, 0)}) |->
            IF Fault(scn, "eth_header", 0, "bad_number")
            THEN [L1Header(scn, 0) EXCEPT !.number = @ + 1]
            ELSE L1Header(scn, 0)]]

\* The L2 blocks a sequencer may build: the epoch kept or advanced by one,
\* with or without a user transaction, the batch posted in an L1 block
\* after the block's epoch, or not posted (post = 0) for an empty block
\* that advances the epoch.
BlockChoices ==
  {b \in [delta : {0, 1}, txs : {0, 1}, post : 0..MaxEthBlocks - 1] :
     b.post = 0 => (b.delta = 1 /\ b.txs = 0)}

RECURSIVE BlockPlans(_)
BlockPlans(n) ==
  IF n = 0 THEN {<<>>}
  ELSE {Append(p, b) : p \in BlockPlans(n - 1), b \in BlockChoices}

\* A batch is posted after the epoch it names exists.
PlanOk(blocks) ==
  LET scn == [blocks |-> blocks]
  IN  \A i \in 1..Len(blocks) :
        blocks[i].post = 0 \/ blocks[i].post > EpochIdx(scn, i)

\* Every choice for the first two blocks; a later block is either left to
\* the empty batch of the next epoch or posted in the last L1 block.
TailChoices ==
  {[delta |-> 1, txs |-> 0, post |-> 0],
   [delta |-> 0, txs |-> 1, post |-> MaxEthBlocks - 1]}

Plans ==
  {p \in BlockPlans(MaxCount) :
     /\ PlanOk(p)
     /\ \A i \in 3..Len(p) : p[i] \in TailChoices}

NoFault == <<"none", 0, "none">>

Faults ==
  ({"op"} \X (0..MaxCount) \X
     {"missing", "bad_number", "bad_parent", "bad_tx_root", "late_timestamp",
      "huge_timestamp", "no_transactions", "bad_calldata", "bad_l1_hash"})
  \cup
  ({"eth"} \X (0..2) \X
     {"missing", "bad_number", "bad_parent", "bad_tx_root",
      "bad_receipts_root", "huge_timestamp", "no_receipts"})
  \cup
  ({"eth"} \X {0} \X {"forked"})
  \cup
  ({"eth_header"} \X {0} \X {"missing", "bad_number"})

\* The plans the spoiled witnesses are tried with: two posted blocks, the
\* first in the head's epoch, the second in the next one.
FaultPlans ==
  {p \in Plans : /\ p[1] = [delta |-> 0, txs |-> 1, post |-> 1]
                 /\ p[2].delta = 1 /\ p[2].post = 2
                 /\ \A i \in 3..Len(p) : p[i].post = 0}

\* The plans the config updates are tried with: the first block posted
\* before the update or with it, the second with it.
UpdatePlans ==
  {p \in Plans : /\ p[1].delta = 0 /\ p[1].txs = 1 /\ p[1].post \in {1, 2}
                 /\ p[2] = [delta |-> 1, txs |-> 1, post |-> 2]
                 /\ \A i \in 3..Len(p) : p[i].post = 0}

\* The plans the framings are tried with: the first block posted in the
\* second L1 block, the second with it or not posted.
FramePlans ==
  {p \in Plans : /\ p[1] = [delta |-> 0, txs |-> 1, post |-> 1]
                 /\ p[2].post \in {0, 1}
                 /\ \A i \in 3..Len(p) : p[i].post = 0}

Framings == {"reversed", "two_blocks", "late", "never"}

\* The plans a batch that names the epoch after the next is tried with:
\* the first two blocks in the head's epoch, posted in the last L1 block.
SkipPlans ==
  {p \in Plans :
     /\ p[1] = [delta |-> 0, txs |-> 1, post |-> MaxEthBlocks - 1]
     /\ p[2] = [delta |-> 0, txs |-> 1, post |-> MaxEthBlocks - 1]
     /\ \A i \in 3..Len(p) : p[i].post = 0}

\* The plans tried with L1 numbers that wrap: blocks of the head's epoch,
\* the first posted in the second or the third L1 block.
WrapPlans ==
  {p \in Plans : /\ p[1].delta = 0 /\ p[1].txs = 1 /\ p[1].post \in {1, 2}
                 /\ \A i \in 2..Len(p) :
                      p[i].delta = 0 /\ p[i].txs = 1 /\ p[i].post >= 2}

Scenario(head_no, count, checks, seq0, blocks, deposit, update, l1_slow, fault) ==
  [head_no |-> head_no, l1_no |-> Chain.l1_number, count |-> count,
   checks |-> checks, seq0 |-> seq0, blocks |-> blocks, deposit |-> deposit, update |-> update,
   l1_slow |-> l1_slow, fault |-> fault, framing |-> "single", switched |-> TRUE,
   skip |-> FALSE]

\* The sound chains: with a deposit in the second L1 block, with a head
\* that is not the first block of its epoch and slow L1 blocks, with neither.
SoundKinds ==
  {[seq0 |-> 0, deposit |-> TRUE, l1_slow |-> FALSE],
   [seq0 |-> 1, deposit |-> FALSE, l1_slow |-> TRUE],
   [seq0 |-> 0, deposit |-> FALSE, l1_slow |-> FALSE]}

Scenarios ==
  \* sound witnesses
  {Scenario(1, c, TRUE, k.seq0, p, k.deposit, "none", k.l1_slow, NoFault) :
     c \in 0..MaxCount, p \in Plans, k \in SoundKinds}
  \cup
  \* one spoiled witness
  {Scenario(1, c, TRUE, 0, p, TRUE, "none", FALSE, f) :
     c \in 1..MaxCount, p \in FaultPlans, f \in Faults}
  \cup
  \* a config update in the third L1 block
  {Scenario(1, c, TRUE, 0, p, FALSE, u, slow, NoFault) :
     c \in 1..MaxCount, p \in UpdatePlans, slow \in BOOLEAN,
     u \in {"FeeScalar", "BatcherAddress", "GasLimit", "Unknown"}}
  \cup
  \* a batcher that keeps its address when the batcher address changes
  {[Scenario(1, c, TRUE, 0, p, FALSE, "BatcherAddress", FALSE, NoFault)
      EXCEPT !.switched = FALSE] :
     c \in 1..MaxCount, p \in UpdatePlans}
  \cup
  \* a second batch that names the epoch after the next, with slow L1 blocks
  {[Scenario(1, c, TRUE, 0, p, FALSE, "none", TRUE, NoFault)
      EXCEPT !.skip = TRUE] :
     c \in 2..MaxCount, p \in SkipPlans}
  \cup
  \* the first channel in several frames
  {[Scenario(1, c, TRUE, 0, p, FALSE, "none", slow, NoFault)
      EXCEPT !.framing = f] :
     c \in 1..MaxCount, p \in FramePlans, slow \in BOOLEAN, f \in Framings}
  \cup
  \* numbers at the end of the u64 range, in both kinds of build
  {Scenario(h, c, k, s, p, FALSE, "none", FALSE, NoFault) :
     h \in {1, U64Max - 1, U64Max}, c \in 0..MaxCount, k \in BOOLEAN,
     s \in {0, U64Max}, p \in FaultPlans}
  \cup
  \* L1 numbers at the end of the u64 range, in both kinds of build
  {[Scenario(1, c, k, 0, p, FALSE, "none", FALSE, NoFault) EXCEPT !.l1_no = n] :
     n \in {U64Max - 1, U64Max}, c \in 1..MaxCount, k \in BOOLEAN,
     p \in WrapPlans}

(* ------------------- Transaction RLP (transactions/mod.rs) -------------- *)

\* The big-endian bytes of a length, without leading zeros.
RECURSIVE to_be_bytes(_)
to_be_bytes(n) ==
  IF n = 0 THEN <<>> ELSE Append(to_be_bytes(n \div 256), n % 256)

\* alloy_rlp::length_of_length: the bytes of the header of a payload.
length_of_length(payload_length) ==
  IF payload_length < 56 THEN 1 ELSE 1 + Len(to_be_bytes(payload_length))

\* alloy_rlp::Header::encode
Header_encode(header) ==
  LET code == IF header.list THEN 192 ELSE 128
  IN  IF header.payload_length < 56
      THEN <<code + header.payload_length>>
      ELSE <<code + 55 + Len(to_be_bytes(header.payload_length))>>
           \o to_be_bytes(header.payload_length)

\* The number the big-endian bytes stand for.
RECURSIVE from_be_bytes(_)
from_be_bytes(bytes) ==
  IF Len(bytes) = 0 THEN 0
  ELSE from_be_bytes(SubSeq(bytes, 1, Len(bytes) - 1)) * 256 + bytes[Len(bytes)]

\* alloy_rlp::Header::decode of the front of a buffer: the header, or an
\* error when the buffer is too short for what its first bytes announce.
Header_decode(buf) ==
  IF Len(buf) = 0 THEN None
  ELSE LET b == buf[1]
           list == b >= 192
           code == IF list THEN 192 ELSE 128
           long == b - code - 55
       IN  IF b < 128 THEN Some([list |-> FALSE, payload_length |-> 1])
           ELSE IF b - code < 56
           THEN IF Len(buf) - 1 < b - code THEN None
                ELSE Some([list |-> list, payload_length |-> b - code])
           ELSE IF Len(buf) - 1 < long THEN None
           ELSE LET n == from_be_bytes(SubSeq(buf, 2, 1 + long))
                IN  IF Len(buf) - 1 - long < n THEN None
                    ELSE Some([list |-> list, payload_length |-> n])

\* alloy_rlp::Header::length: the bytes the header encodes to.
Header_length(header) == Len(Header_encode(header))

\* Encodable for a byte string: a single byte below 0x80 is itself, any
\* other string follows its header.
encode_bytes(bytes) ==
  IF Len(bytes) = 1 /\ bytes[1] < 128 THEN bytes
  ELSE Header_encode([list |-> FALSE, payload_length |-> Len(bytes)]) \o bytes

RECURSIVE encode_fields(_)
encode_fields(fields) ==
  IF Len(fields) = 0 THEN <<>>
  ELSE encode_bytes(Head(fields)) \o encode_fields(Tail(fields))

\* EthereumTxEssence::payload_length and TxSignature::payload_length: the
\* bytes of the encoded fields.
payload_length(fields) == Len(encode_fields(fields))

\* Encodable for EthereumTxEssence and for TxSignature: the list of the
\* fields.
encode_list(fields) ==
  Header_encode([list |-> TRUE, payload_length |-> payload_length(fields)])
  \o encode_fields(fields)

\* The fields of a signature: v, r, s.
signature_fields(signature) == <<signature.v, signature.r, signature.s>>

\* rlp_join_lists over the encodings of a and b: what it puts into out, or
\* a panic when one of them is not a list.
rlp_join_lists(a_buf, b_buf) ==
  LET a_header == Header_decode(a_buf)
      b_header == Header_decode(b_buf)
  IN  IF ~IsSome(a_header) \/ ~IsSome(b_header) THEN [status |-> "panic", out |-> <<>>]
      ELSE IF ~a_header.some.list \/ ~b_header.some.list
      THEN [status |-> "panic", out |-> <<>>]
      ELSE LET a_head_length == Header_length(a_header.some)
               a_payload_length == Len(a_buf) - a_head_length
               b_head_length == Header_length(b_header.some)
               b_payload_length == Len(b_buf) - b_head_length
           IN  [status |-> "ok",
                out |-> Header_encode([list |-> TRUE,
                                       payload_length |-> a_payload_length
                                                            + b_payload_length])
                        \o SubSeq(a_buf, a_head_length + 1, Len(a_buf))
                        \o SubSeq(b_buf, b_head_length + 1, Len(b_buf))]

\* Transaction::encode
Transaction_encode(tx) ==
  LET joined == rlp_join_lists(encode_list(tx.essence.fields),
                               encode_list(signature_fields(tx.signature)))
  IN  [joined EXCEPT !.out =
         (IF tx.essence.tx_type = 0 THEN <<>> ELSE <<tx.essence.tx_type>>) \o @]

\* Transaction::length with the type byte counted for every type.
Transaction_length_with_type_byte(tx) ==
  LET payload == payload_length(tx.essence.fields)
                   + payload_length(signature_fields(tx.signature))
  IN  payload + length_of_length(payload) + 1

\* Transaction::length
Transaction_length(tx) ==
  LET payload == payload_length(tx.essence.fields)
                   + payload_length(signature_fields(tx.signature))
      length0 == payload + length_of_length(payload)
  IN  IF tx.essence.tx_type # 0 THEN length0 + 1 ELSE length0

\* The byte strings of the given lengths, of one byte value each.
Filled(lengths, byte) == {[i \in 1..n |-> byte] : n \in lengths}

\* The transactions encoded: legacy, EIP-2930 and EIP-1559 essences with a
\* nonce and call data, short and long, and signatures with short and full
\* values.
Transactions ==
  [essence : [tx_type : {0, 1, 2},
              fields : {<<nonce, data>> : nonce \in {<<>>, <<1>>, <<200>>},
                                          data \in Filled({0, 1, 54, 200}, 7)}],
   signature : [v : {<<>>, <<1>>, <<28>>},
                r : Filled({0, 32}, 136),
                s : Filled({0, 32}, 69)]]

(* ------------------------------- the run ------------------------------- *)

VARIABLES
  input,             \* the DeriveInput given to new, as given
  overflow_checks,   \* whether the build checks integer overflow
  machine,           \* the DeriveMachine (before new: its input alone)
  pc,                \* where the caller is: new, derive's loops, the end
  target_block_no,   \* derive's local
  derived_op_blocks, \* derive's local
  output,            \* what derive returned, if it returned
  passes,            \* per pass of the call's batch loop: what it saw
  taken,             \* the witnesses removed from the database, in order
  returns,           \* per call of derive that returned: what it left
  transaction,       \* the Transaction that is encoded, if one is
  encoded,           \* what alloy_rlp::encode(&transaction) returned
  length             \* what transaction.length() returned

derive_vars == <<input, overflow_checks, machine, pc, target_block_no,
                 derived_op_blocks, output, passes, taken, returns>>

rlp_vars == <<transaction, encoded, length>>

vars == <<derive_vars, rlp_vars>>

\* The stores of MemDb, in the order new reads them.
Stores == <<"full_op_block", "eth_block_header", "full_eth_block", "op_block_header">>

\* The entries a step removed from the database: <<store, number>> of
\* every entry of db that db1 no longer holds. A step reads a store at most
\* once; new reads the L2 head before the L1 header.
Taken(db, db1) ==
  LET gone(k) == IF DOMAIN db[Stores[k]] = DOMAIN db1[Stores[k]] THEN <<>>
                 ELSE <<<<Stores[k],
                          CHOOSE n \in DOMAIN db[Stores[k]] :
                            n \notin DOMAIN db1[Stores[k]]>>>>
  IN  gone(1) \o gone(2) \o gone(3) \o gone(4)

Init ==
  \E scn \in Scenarios :
    /\ input = [db |-> WitnessDb(scn),
                op_head_block_no |-> scn.head_no,
                op_derive_block_count |-> scn.count]
    /\ overflow_checks = scn.checks
    /\ machine = [derive_input |-> input]
    /\ pc = "new"
    /\ target_block_no = 0
    /\ derived_op_blocks = <<>>
    /\ output = None
    /\ passes = <<>>
    /\ taken = <<>>
    /\ returns = <<>>
    /\ transaction = None
    /\ encoded = None
    /\ length = None

\* What a status other than "ok" does to the caller.
Failed(status) == IF status = "error" THEN "error" ELSE "panic"

\* DeriveMachine::new(derive_input)
New ==
  /\ pc = "new"
  /\ LET r == new(machine.derive_input)
     IN  /\ machine' = r.machine
         /\ pc' = IF r.status = "ok" THEN "constructed" ELSE Failed(r.status)
         /\ taken' = taken \o Taken(machine.derive_input.db,
                                    r.machine.derive_input.db)
  /\ UNCHANGED <<rlp_vars, input, overflow_checks, returns, target_block_no, derived_op_blocks,
                 output, passes>>

\* derive's target counted from the block the machine stands at.
target_from_op_block_no(machine1, checks) ==
  AddU64(machine1.op_block_no, machine1.derive_input.op_derive_block_count,
         checks)

\* derive, `let target_block_no = self.derive_input.op_head_block_no +
\* self.derive_input.op_derive_block_count`
target_from_op_head(machine1, checks) ==
  AddU64(machine1.derive_input.op_head_block_no,
         machine1.derive_input.op_derive_block_count, checks)

\* derive, up to its loop: the target and the empty list. derive borrows
\* the machine, which the caller keeps and may call derive on again.
DeriveBegin ==
  /\ \/ pc = "constructed"
     \/ pc = "returned" /\ Len(returns) < MaxCalls
  /\ LET t == target_from_op_head(machine, overflow_checks)
     IN  /\ target_block_no' = t.value
         /\ pc' = IF t.status = "ok" THEN "loop" ELSE Failed(t.status)
  /\ derived_op_blocks' = <<>>
  /\ output' = None
  /\ passes' = <<>>
  /\ UNCHANGED <<rlp_vars, input, overflow_checks, returns, machine, taken>>

\* derive's outer loop entered once more with the target reached.
below_target_or_at(machine1, target) == machine1.op_block_no <= target

\* derive, `while self.op_block_no < target_block_no`
below_target(machine1, target) == machine1.op_block_no < target

\* derive's outer loop: the next L1 block.
NextEthBlock ==
  /\ pc = "loop"
  /\ below_target(machine, target_block_no)
  /\ LET r == process_next_eth_block(machine, overflow_checks)
     IN  /\ machine' = r.machine
         /\ pc' = IF r.status = "ok" THEN "batches" ELSE Failed(r.status)
         /\ output' = IF r.status = "ok" THEN output
                       ELSE abort(output, r.machine, derived_op_blocks)
         /\ taken' = taken \o Taken(machine.derive_input.db,
                                    r.machine.derive_input.db)
  /\ UNCHANGED <<rlp_vars, input, overflow_checks, returns, target_block_no, derived_op_blocks,
                 passes>>

\* derive's batch loop never left at the target.
at_target_never(machine1, target) == FALSE

\* derive, `if self.op_block_no == target_block_no { break; }`
at_target(machine1, target) == machine1.op_block_no = target

\* derive's batch loop: one batch of the queue.
NextBatch ==
  /\ pc = "batches"
  /\ LET n == Batches_next(machine.op_batches)
     IN  /\ IsSome(n.batch)
         /\ LET r == process_batch([machine EXCEPT !.op_batches = n.op_batches],
                                   n.batch.some, overflow_checks)
            IN  /\ machine' = r.machine
                /\ passes' = Append(passes, [status |-> r.status,
                                              synthesized |-> n.synthesized]
                                             @@ r.info)
                /\ derived_op_blocks' =
                     IF r.status = "ok" THEN Append(derived_op_blocks, r.derived.some)
                     ELSE derived_op_blocks
                /\ pc' = IF r.status # "ok" THEN Failed(r.status)
                         ELSE IF at_target(r.machine, target_block_no)
                              THEN "loop"
                              ELSE "batches"
                /\ output' = IF r.status = "ok" THEN output
                              ELSE abort(output, r.machine, derived_op_blocks)
                /\ taken' = taken \o Taken(machine.derive_input.db,
                                           r.machine.derive_input.db)
  /\ UNCHANGED <<rlp_vars, input, overflow_checks, returns, target_block_no>>

\* derive's batch loop ends: the queue has no batch.
NoBatch ==
  /\ pc = "batches"
  /\ LET n == Batches_next(machine.op_batches)
     IN  /\ ~IsSome(n.batch)
         /\ machine' = [machine EXCEPT !.op_batches = n.op_batches]
  /\ pc' = "loop"
  /\ UNCHANGED <<rlp_vars, input, overflow_checks, returns, target_block_no, derived_op_blocks,
                 output, passes, taken>>

\* derive returns its output.
DeriveReturn ==
  /\ pc = "loop"
  /\ ~below_target(machine, target_block_no)
  /\ output' = Some(derive_output(machine, derived_op_blocks))
  /\ returns' = Append(returns, [output |-> derive_output(machine, derived_op_blocks),
                                  machine |-> machine,
                                  taken |-> taken,
                                  passes |-> passes])
  /\ pc' = "returned"
  /\ UNCHANGED <<rlp_vars, input, overflow_checks, machine, target_block_no,
                 derived_op_blocks, passes, taken>>

Next ==
  \/ New
  \/ DeriveBegin
  \/ NextEthBlock
  \/ NextBatch
  \/ NoBatch
  \/ DeriveReturn

Spec == Init /\ [][Next]_vars

\* The code runs on: derive does not stay in its loops without a step. In
\* its loops a step can always be taken: the outer loop goes on or is left,
\* the queue yields a batch or none.
FairSpec ==
  Spec /\ ([]<>(pc \notin {"loop", "batches"}) \/ []<><<Next>>_vars)

(* ------------------------ the run of the encoding ---------------------- *)

\* A transaction is given; no machine is built.
InitRlp ==
  /\ transaction \in Transactions
  /\ encoded = None
  /\ length = None
  /\ input = None
  /\ overflow_checks = TRUE
  /\ machine = None
  /\ pc = "rlp"
  /\ target_block_no = 0
  /\ derived_op_blocks = <<>>
  /\ output = None
  /\ passes = <<>>
  /\ taken = <<>>
  /\ returns = <<>>

\* alloy_rlp::encode(&transaction): encode into an empty buffer.
Encode ==
  /\ pc = "rlp"
  /\ encoded = None
  /\ encoded' = Some(Transaction_encode(transaction))
  /\ UNCHANGED <<derive_vars, transaction, length>>

\* transaction.length()
Length ==
  /\ pc = "rlp"
  /\ length = None
  /\ length' = Some(Transaction_length(transaction))
  /\ UNCHANGED <<derive_vars, transaction, encoded>>

NextRlp ==
  \/ Encode
  \/ Length

SpecRlp == InitRlp /\ [][NextRlp]_vars

(* ------------------------------ the claims ----------------------------- *)

\* Whether new built a machine.
Constructed == "op_block_no" \in DOMAIN machine

\* The L2 head block as the input holds it.
OpHead == input.db.full_op_block[input.op_head_block_no]

\* The passes of the batch loop that appended a block.
Accepted(i) == passes[i].status = "ok"

\* The passes of the batch loop that read an L2 header witness.
ReadHeader(i) == "new_op_head" \in DOMAIN passes[i]

\* C1: when derive returns, derived_op_blocks has op_derive_block_count
\* entries.
C1_LengthIsCount ==
  pc = "returned" =>
    Len(output.some.derived_op_blocks) = input.op_derive_block_count

\* C2: in an output, entry i (from 1) is the number op_head_block_no + i
\* with the hash of the header witness the input stores under that number.
C2_NumbersAndHashes ==
  pc = "returned" =>
    \A i \in 1..Len(output.some.derived_op_blocks) :
      LET n == input.op_head_block_no + i
      IN  /\ n \in DOMAIN input.db.op_block_header
          /\ output.some.derived_op_blocks[i] =
               <<n, HeaderHash(input.db.op_block_header[n])>>

C2_Witness ==
  /\ pc = "returned"
  /\ Len(output.some.derived_op_blocks) = 2

\* C3: the header accepted in a pass names as its parent the safe head of
\* that moment: the L2 head for the first block, the block derived before
\* for the others; a header that names another parent ends derive in a
\* panic and is not appended.
C3_HashLinked ==
  \A i \in 1..Len(passes) :
    ReadHeader(i) =>
      LET parent == IF i = 1 THEN HeaderHash(OpHead.block_header)
                    ELSE HeaderHash(passes[i - 1].new_op_head)
      IN  /\ passes[i].safe_head.hash = parent
          /\ Accepted(i) =>
               /\ passes[i].new_op_head.parent_hash = parent
               /\ derived_op_blocks[i][2] = HeaderHash(passes[i].new_op_head)
          /\ passes[i].new_op_head.parent_hash # parent =>
               /\ pc = "panic"
               /\ i = Len(passes)
               /\ Len(derived_op_blocks) = i - 1

C3_Witness ==
  /\ pc = "panic"
  /\ Len(passes) = 2
  /\ ReadHeader(2)
  /\ passes[2].new_op_head.parent_hash # HeaderHash(passes[1].new_op_head)

\* C4: a block is appended, and the safe head moved to it, only when the
\* root of the trie of the expected transactions (keyed by the RLP of
\* their index) is the transactions root of the header witness; on a
\* mismatch derive fails and leaves the safe head and the list as they
\* were.
C4_TransactionsRoot ==
  \A i \in 1..Len(passes) :
    ReadHeader(i) =>
      LET p == passes[i]
          root == [mpt |-> [k \in {ToRlp(j - 1) : j \in 1..Len(p.derived_transactions)} |->
                     p.derived_transactions[
                        CHOOSE j \in 1..Len(p.derived_transactions) : ToRlp(j - 1) = k]]]
      IN  IF root = p.new_op_head.transactions_root
          THEN Accepted(i) => /\ Len(derived_op_blocks) >= i
                              /\ derived_op_blocks[i][2] = HeaderHash(p.new_op_head)
          ELSE /\ pc \in {"error", "panic"}
               /\ i = Len(passes)
               /\ Len(derived_op_blocks) = i - 1
               /\ machine.op_batches.state.safe_head = p.safe_head

C4_Witness ==
  /\ pc = "error"
  /\ Len(passes) = 2
  /\ ReadHeader(2)
  /\ passes[2].new_op_head.parent_hash = passes[2].safe_head.hash
  /\ TrieRoot(passes[2].derived_transactions)
       # passes[2].new_op_head.transactions_root

\* Whether the batch of pass i names the epoch after the current one.
Adopts(i) == passes[i].op_batch.epoch_num = passes[i].epoch.number + 1

\* C5: the expected transactions of a block are the L1 attributes
\* transaction, then the deposits, then the batch's transactions; the
\* deposits are all those of the epoch the block adopts (the L1 block of
\* the batch's epoch_num) and none in a block that adopts no epoch, so
\* only the block with sequence number 0 that adopts an epoch holds its
\* deposits.
C5_ExpectedTransactions ==
  \A i \in 1..Len(passes) :
    ReadHeader(i) =>
      LET p == passes[i]
          txs == p.derived_transactions
          deps == IF Adopts(i)
                  THEN SeqMap(to_rlp, p.epoch_after.deposits)
                  ELSE <<>>
          attributes == txs[1].rlp.essence
      IN  /\ Len(txs) = 1 + Len(deps) + Len(p.op_batch.transactions)
          /\ attributes.kind = "OptimismDeposited"
          /\ attributes.data.selector = "setL1BlockValues"
          /\ attributes.data.args.number = p.epoch_after.number
          /\ attributes.data.args.sequence_number = p.seq_no_after
          /\ SubSeq(txs, 2, 1 + Len(deps)) = deps
          /\ SubSeq(txs, 2 + Len(deps), Len(txs)) = p.op_batch.transactions
          /\ Adopts(i) =>
               LET l1 == input.db.full_eth_block[p.op_batch.epoch_num]
               IN  /\ p.seq_no_after = 0
                   /\ p.epoch_after.number = p.op_batch.epoch_num
                   /\ p.epoch_after.hash = HeaderHash(l1.block_header)
                   /\ p.epoch_after.deposits = extract_transactions(l1)
          /\ ~Adopts(i) => p.epoch_after = p.epoch
          /\ \A j \in 1..(i - 1) :
               passes[j].epoch_after.number = p.epoch_after.number =>
                 Len(txs) = 1 + Len(p.op_batch.transactions)

C5_Witness ==
  /\ pc = "returned"
  /\ Len(passes) = 2
  /\ Adopts(1)
  /\ Len(passes[1].epoch_after.deposits) > 0
  /\ Len(passes[1].derived_transactions) = 2 + Len(passes[1].op_batch.transactions)
  /\ ~Adopts(2)
  /\ Len(passes[2].op_batch.transactions) > 0
  /\ Len(passes[2].derived_transactions) = 2

\* C6: in every pass op_block_seq_no becomes 0 when the batch names the
\* epoch after the current one, and its value before plus 1 otherwise; the
\* first pass starts from the sequence number of the L2 head's system
\* transaction.
C6_SequenceNumber ==
  \A i \in 1..Len(passes) :
    ReadHeader(i) =>
      /\ passes[i].op_block_seq_no =
           IF i = 1 THEN OpHead.transactions[1].essence.data.args.sequence_number
           ELSE passes[i - 1].seq_no_after
      /\ passes[i].seq_no_after =
           IF Adopts(i) THEN 0 ELSE passes[i].op_block_seq_no + 1

\* C7: after i derived blocks the safe head's timestamp is the L2 head's
\* plus i block times.
C7_Timestamps ==
  Constructed =>
    machine.op_batches.state.safe_head.timestamp =
      OpHead.block_header.timestamp + Len(derived_op_blocks) * BlockTime

\* The L2 head of the input is there, and its first transaction decodes
\* to a setL1BlockValues call.
HeadDecodes ==
  /\ input.op_head_block_no \in DOMAIN input.db.full_op_block
  /\ Len(OpHead.transactions) > 0
  /\ IsSome(abi_decode(OpHead.transactions[1].essence.data))

HeadValues == OpHead.transactions[1].essence.data.args

\* The hash the L2 head carries is not the hash of the L1 header witness
\* stored under the number it carries.
HeadHashMismatch ==
  /\ HeadDecodes
  /\ HeadValues.number \in DOMAIN input.db.eth_block_header
  /\ HeaderHash(input.db.eth_block_header[HeadValues.number]) # HeadValues.hash

\* C8: when the L1 hash the L2 head carries differs from the hash of the
\* L1 header witness, new fails (with an error when the witnesses it read
\* are otherwise sound): no machine is built, no full L1 block is taken,
\* no L2 block is derived.
C8_BootstrapMismatch ==
  HeadHashMismatch =>
    /\ ~Constructed
    /\ pc \in {"new", "error", "panic"}
    /\ (/\ pc # "new"
        /\ OpHead.block_header.number = input.op_head_block_no
        /\ TrieRoot(SeqMap(to_rlp, OpHead.transactions))
             = OpHead.block_header.transactions_root
        /\ input.db.eth_block_header[HeadValues.number].number = HeadValues.number)
       => pc = "error"
    /\ machine.derive_input.db.full_eth_block = input.db.full_eth_block
    /\ passes = <<>>
    /\ derived_op_blocks = <<>>
    /\ output = None

C8_Witness ==
  /\ HeadHashMismatch
  /\ pc = "error"
  /\ input.db.eth_block_header[HeadValues.number].number = HeadValues.number

\* C9: when derive fails, by an error or a panic, it returns no output,
\* whatever it had derived before.
C9_NoPartialOutput ==
  pc \in {"error", "panic"} => output = None

C9_Witness ==
  /\ pc \in {"error", "panic"}
  /\ Len(derived_op_blocks) > 0
  /\ output = None

\* The numbers of the entries taken from a store, in the order taken.
TakenFrom(store) ==
  LET t == SelectSeq(taken, LAMBDA e : e[1] = store)
  IN  [k \in 1..Len(t) |-> t[k][2]]

\* C11: the full L1 blocks are taken in contiguous, increasing number
\* order from the L1 number the L2 head carries, and eth_block_no stands
\* one past the last block taken once that block was processed to the
\* end; a block whose processing failed leaves eth_block_no on it.
C11_EthBlocksInOrder ==
  LET t == TakenFrom("full_eth_block")
  IN  /\ \A k \in 1..Len(t) : t[k] = HeadValues.number + (k - 1)
      /\ Constructed =>
           \/ /\ machine.eth_block_no = HeadValues.number + Len(t)
              /\ Len(t) > 0 =>
                   /\ machine.op_batches.state.current_l1_block_number = t[Len(t)]
                   /\ machine.op_batches.state.current_l1_block_hash =
                        HeaderHash(input.db.full_eth_block[t[Len(t)]].block_header)
           \/ /\ pc \in {"error", "panic"}
              /\ Len(t) > 0
              /\ machine.eth_block_no = t[Len(t)]

\* A step of process_next_eth_block that took a full L1 block.
TookEthBlock ==
  /\ pc = "loop"
  /\ Len(taken') = Len(taken) + 1
  /\ taken'[Len(taken')] = <<"full_eth_block", machine.eth_block_no>>

\* The taken block is past the current L1 block and does not name it as
\* its parent.
EthParentMismatch(m) ==
  /\ m.op_batches.state.current_l1_block_number < m.eth_block_no
  /\ m.eth_block_no \in DOMAIN input.db.full_eth_block
  /\ input.db.full_eth_block[m.eth_block_no].block_header.parent_hash
       # m.op_batches.state.current_l1_block_hash

\* C12: a step of process_next_eth_block that takes a block past the
\* current L1 block goes on only when the block's parent_hash is the
\* current L1 block's hash; otherwise it fails and leaves the system
\* config, the epoch queue, the batch queue and eth_block_no as they were.
C12_EthParentChecked ==
  [][TookEthBlock /\ EthParentMismatch(machine) =>
       /\ pc' = "panic"
       /\ machine'.op_batches = machine.op_batches
       /\ machine'.eth_block_no = machine.eth_block_no
       /\ output' = None]_vars

C12_Witness ==
  /\ pc = "panic"
  /\ Constructed
  /\ Len(taken) > 0
  /\ taken[Len(taken)] = <<"full_eth_block", machine.eth_block_no>>
  /\ EthParentMismatch(machine)

\* The database the program holds.
Db == machine.derive_input.db

\* The read of a store, by the store's name.
db_read(store, db, n) ==
  IF store = "full_op_block" THEN get_full_op_block(db, n)
  ELSE IF store = "op_block_header" THEN get_op_block_header(db, n)
  ELSE IF store = "full_eth_block" THEN get_full_eth_block(db, n)
  ELSE get_eth_block_header(db, n)

StoreNames == {Stores[k] : k \in DOMAIN Stores}

\* C13: a read of number n from a store, whatever it returns, leaves a
\* database without n in that store, with the store's other entries and
\* the three other stores as they were, and a second read of n from it
\* fails on the missing entry and changes nothing; the database the
\* program holds is its input without the entries taken.
C13_ReadsAreSingleUse ==
  /\ \A store \in StoreNames :
       /\ \A n \in DOMAIN Db[store] \cup {0, U64Max} :
            LET r == db_read(store, Db, n)
                again == db_read(store, r.db, n)
            IN  /\ DOMAIN r.db[store] = DOMAIN Db[store] \ {n}
                /\ \A k \in DOMAIN r.db[store] : r.db[store][k] = Db[store][k]
                /\ \A other \in StoreNames \ {store} : r.db[other] = Db[other]
                /\ again.status = "panic"
                /\ again.value = None
                /\ again.db = r.db
       /\ DOMAIN Db[store] =
            DOMAIN input.db[store] \ {TakenFrom(store)[k] : k \in 1..Len(TakenFrom(store))}
       /\ \A k \in DOMAIN Db[store] : Db[store][k] = input.db[store][k]
  /\ \A i, j \in 1..Len(taken) : taken[i] = taken[j] => i = j

C13_Witness ==
  /\ pc = "returned"
  /\ \A store \in StoreNames : Len(TakenFrom(store)) > 0
  /\ \E store \in StoreNames : DOMAIN Db[store] # {}
  /\ \A i \in 1..Len(taken) :
       db_read(taken[i][1], Db, taken[i][2]).status = "panic"

\* What get_full_eth_block asks of a block: the transactions hash to the
\* header's transactions_root, and the receipts hash to its receipts_root
\* or, when there are none, the logs bloom holds neither contract.
EthBlockSound(eth_block) ==
  /\ TrieRoot(SeqMap(to_rlp, eth_block.transactions))
       = eth_block.block_header.transactions_root
  /\ IF IsSome(eth_block.receipts)
     THEN TrieRoot(SeqMap(to_rlp, eth_block.receipts.some))
            = eth_block.block_header.receipts_root
     ELSE /\ DepositContract \notin eth_block.block_header.logs_bloom
          /\ SystemConfigContract \notin eth_block.block_header.logs_bloom

\* C14: get_full_eth_block returns a block, the one stored, only when its
\* transactions and its receipts (or, without receipts, its logs bloom)
\* pass; in every other case it fails and returns none. The L1 blocks the
\* machine has gone past all passed.
C14_EthBlockValidated ==
  /\ \A n \in DOMAIN Db.full_eth_block :
       LET r == get_full_eth_block(Db, n)
       IN  /\ r.status = "ok" =>
                r.value = Db.full_eth_block[n] /\ EthBlockSound(r.value)
           /\ ~EthBlockSound(Db.full_eth_block[n]) =>
                r.status \in {"error", "panic"} /\ r.value = None
  /\ \A k \in 1..Len(TakenFrom("full_eth_block")) :
       (k < Len(TakenFrom("full_eth_block")) \/ pc \notin {"error", "panic"})
         => EthBlockSound(input.db.full_eth_block[TakenFrom("full_eth_block")[k]])

\* A block whose receipts do not hash to the receipts_root was taken and
\* the read failed.
C14_Witness ==
  /\ pc = "error"
  /\ Constructed
  /\ Len(taken) > 0
  /\ taken[Len(taken)] = <<"full_eth_block", machine.eth_block_no>>
  /\ LET b == input.db.full_eth_block[machine.eth_block_no]
     IN  /\ b.block_header.number = machine.eth_block_no
         /\ TrieRoot(SeqMap(to_rlp, b.transactions)) = b.block_header.transactions_root
         /\ IsSome(b.receipts)
         /\ ~EthBlockSound(b)

\* The set of the elements of a sequence.
Range(s) == {s[k] : k \in 1..Len(s)}

\* C15: derive never changes op_head; in an output, op_head is the L2
\* head's number and the hash of the L2 head block read by new, eth_tail is
\* the number and hash of the last full L1 block taken (of the L1 header
\* new read when none was taken), and the L1 witnesses taken are those of
\* the numbers from the L2 head's L1 number up to eth_tail's.
C15_OutputHeadAndTail ==
  /\ Constructed =>
       /\ machine.derive_input.op_head_block_no = input.op_head_block_no
       /\ machine.op_head_block_hash = HeaderHash(OpHead.block_header)
  /\ pc = "returned" =>
       LET t == TakenFrom("full_eth_block")
           out == output.some
       IN  /\ out.op_head = <<input.op_head_block_no, HeaderHash(OpHead.block_header)>>
           /\ out.eth_tail =
                IF Len(t) = 0
                THEN <<HeadValues.number,
                       HeaderHash(input.db.eth_block_header[HeadValues.number])>>
                ELSE <<t[Len(t)],
                       HeaderHash(input.db.full_eth_block[t[Len(t)]].block_header)>>
           /\ Range(t) \cup Range(TakenFrom("eth_block_header"))
                = HeadValues.number .. out.eth_tail[1]

\* The queue holds no batch that is valid for the next L2 slot.
NoEligibleBatch(m) ==
  \A k \in 1..Len(m.op_batches.batches) :
    LET b == m.op_batches.batches[k]
    IN  ~(/\ b.timestamp = m.op_batches.state.safe_head.timestamp + BlockTime
          /\ batch_valid(m.op_batches.state, b))

\* The safe head has reached the timestamp of the epoch after the current
\* one.
NextEpochDue(m) ==
  /\ IsSome(next_epoch(m.op_batches.state))
  /\ m.op_batches.state.safe_head.timestamp
       >= next_epoch(m.op_batches.state).some.timestamp

\* C17: when the batch loop finds no eligible batch for the next slot and
\* the safe head has reached the next epoch's timestamp, the pass is made
\* with an empty batch of the next epoch, and the transactions expected of
\* its block are the system transaction of that epoch with sequence number
\* 0, then the epoch's deposits, and nothing else.
C17_EmptyBatch ==
  [][(pc = "batches" /\ NoEligibleBatch(machine) /\ NextEpochDue(machine)) =>
       LET state == machine.op_batches.state
           nxt == next_epoch(state).some
           p == passes'[Len(passes')]
       IN  /\ Len(passes') = Len(passes) + 1
           /\ p.synthesized
           /\ p.op_batch = [parent_hash |-> state.safe_head.hash,
                            epoch_num |-> nxt.number,
                            epoch_hash |-> nxt.hash,
                            timestamp |-> state.safe_head.timestamp + BlockTime,
                            transactions |-> <<>>]
           /\ "new_op_head" \in DOMAIN p =>
                /\ p.seq_no_after = 0
                /\ p.epoch_after = nxt
                /\ Len(p.derived_transactions) = 1 + Len(nxt.deposits)
                /\ p.derived_transactions[1].rlp.essence.data.args.number = nxt.number
                /\ p.derived_transactions[1].rlp.essence.data.args.hash = nxt.hash
                /\ p.derived_transactions[1].rlp.essence.data.args.sequence_number = 0
                /\ SubSeq(p.derived_transactions, 2, Len(p.derived_transactions))
                     = SeqMap(to_rlp, nxt.deposits)]_vars

C17_Witness ==
  /\ Len(passes) > 0
  /\ passes[Len(passes)].synthesized
  /\ passes[Len(passes)].status = "ok"
  /\ Len(passes[Len(passes)].epoch_after.deposits) > 0
  /\ Len(passes[Len(passes)].derived_transactions) = 2

(* ---------------------------------- C16 -------------------------------- *)

\* The L1 blocks fed to the channel bank so far, with the positions of the
\* transactions accepted as batcher transactions.
Fed == IF Constructed THEN machine.op_batches.accepted ELSE <<>>

\* The L1 block of the k-th entry, as the caller supplied it.
FedBlock(k) == input.db.full_eth_block[Fed[k].l1_no]

\* The addresses the ConfigUpdate logs of a block set the batcher to, in
\* log order.
BatcherUpdates(eth_block) ==
  IF ~IsSome(eth_block.receipts) THEN <<>>
  ELSE SelectSeq(BlockLogs(eth_block.receipts.some),
                 LAMBDA log : /\ log.address = SystemConfigContract
                              /\ log.topic = "ConfigUpdate"
                              /\ log.update_type = "BatcherAddress")

\* The batcher address in force for the k-th block fed: the last one the
\* block sets, else the one of the block before, at first the one the L2
\* head carries.
RECURSIVE SenderFor(_)
SenderFor(k) ==
  IF k = 0 THEN batcher_address(HeadValues.batcher_hash)
  ELSE LET updates == BatcherUpdates(FedBlock(k))
       IN  IF Len(updates) > 0 THEN updates[Len(updates)].value
           ELSE SenderFor(k - 1)

\* The positions in a block of the transactions to the batch inbox that
\* the address sent.
InboxPositions(eth_block, sender) ==
  {p \in 1..Len(eth_block.transactions) :
     /\ eth_block.transactions[p].essence.to = BatchInbox
     /\ eth_block.transactions[p].from = sender}

\* C16: of every L1 block fed to the channel bank, the transactions
\* accepted are exactly those sent to the batch inbox by the batcher
\* address in force once the block's own ConfigUpdate logs are applied: a
\* block that sets the address to A' has its transactions from A' accepted
\* and those from the address before ignored, and so has every later block
\* until another one sets the address.
C16_BatcherAddressFirst ==
  \A k \in 1..Len(Fed) :
    {Fed[k].positions[p] : p \in 1..Len(Fed[k].positions)}
      = InboxPositions(FedBlock(k), SenderFor(k))

\* A block that changes the batcher address was fed with an inbox
\* transaction of the new address, which was accepted, and one of the
\* address before, which was not.
C16_Witness ==
  \E k \in 1..Len(Fed) :
    /\ Len(BatcherUpdates(FedBlock(k))) > 0
    /\ SenderFor(k) # SenderFor(k - 1)
    /\ InboxPositions(FedBlock(k), SenderFor(k)) # {}
    /\ InboxPositions(FedBlock(k), SenderFor(k - 1)) # {}
    /\ Len(Fed[k].positions) > 0
    /\ pc = "returned"

(* ---------------------------------- C18 -------------------------------- *)

\* The channels still in the bank, and the channels that left it with the
\* L1 block at which they left and how.
OpenChannels == IF Constructed THEN machine.op_batches.channels ELSE <<>>

ClosedChannels == IF Constructed THEN machine.op_batches.closed ELSE <<>>

\* The channels dropped for their age.
TimedOut == SelectSeq(ClosedChannels, LAMBDA r : r.how = "timed_out")

\* The batches read from the channels that completed.
EmittedBatches ==
  UNION {{r.batches[b] : b \in 1..Len(r.batches)} :
           r \in {ClosedChannels[k] : k \in {j \in 1..Len(ClosedChannels) :
                                               ClosedChannels[j].how = "completed"}}}

\* The batches of the senders that derive was handed.
HandedBatches ==
  {passes[i].op_batch : i \in {j \in 1..Len(passes) : ~passes[j].synthesized}}

\* C18: a channel first seen at L1 block N that has not completed is in
\* the bank while the current L1 number is at most N + channel_timeout and
\* is dropped at block N + channel_timeout + 1, not earlier and not later;
\* nothing is read from a dropped channel, whatever frames it held: the
\* batches in the queue and the batches handed to derive are batches of
\* channels that completed.
C18_ChannelTimeout ==
  Constructed =>
    /\ \A k \in 1..Len(OpenChannels) :
         machine.op_batches.state.current_l1_block_number
           <= OpenChannels[k].first_seen + ChannelTimeout
    /\ \A k \in 1..Len(TimedOut) :
         /\ TimedOut[k].at = TimedOut[k].channel.first_seen + ChannelTimeout + 1
         /\ TimedOut[k].batches = <<>>
    /\ \A b \in 1..Len(machine.op_batches.batches) :
         machine.op_batches.batches[b] \in EmittedBatches
    /\ HandedBatches \subseteq EmittedBatches

\* A channel that held two frames, neither the last, was dropped, after a
\* block at which it was still in the bank at the end of its time.
C18_Witness ==
  \E k \in 1..Len(TimedOut) :
    /\ Len(TimedOut[k].channel.frames) = 2
    /\ \E j \in 1..Len(Fed) : Fed[j].l1_no = TimedOut[k].at
    /\ \E j \in 1..Len(Fed) :
         Fed[j].l1_no = TimedOut[k].channel.first_seen + ChannelTimeout

(* ---------------------------------- C19 -------------------------------- *)

\* The channels that left the bank complete.
Completed ==
  SelectSeq(ClosedChannels, LAMBDA r : r.how \in {"completed", "undecodable"})

\* The frame numbers of a channel in the order its frames arrived.
ArrivalOrder(channel) ==
  [k \in 1..Len(channel.frames) |-> channel.frames[k].frame_number]

\* The channel has a frame marked last and every frame number from 0 up to
\* that frame's.
HasAllFrames(channel) ==
  \E k \in 1..Len(channel.frames) :
    /\ channel.frames[k].is_last
    /\ \A n \in 0..channel.frames[k].frame_number :
         \E j \in 1..Len(channel.frames) : channel.frames[j].frame_number = n

\* The data of the frames numbered n and up of a channel that has them all,
\* by frame number.
RECURSIVE DataFrom(_, _)
DataFrom(channel, n) ==
  IF \A j \in 1..Len(channel.frames) : channel.frames[j].frame_number # n
  THEN <<>>
  ELSE LET j == CHOOSE j \in 1..Len(channel.frames) :
                  channel.frames[j].frame_number = n
       IN  channel.frames[j].frame_data
           \o (IF channel.frames[j].is_last THEN <<>> ELSE DataFrom(channel, n + 1))

\* C19: a channel leaves the bank as complete exactly when it holds its
\* last frame and every lower frame number, in whatever order the frames
\* arrived: no channel in the bank holds them all, every channel that left
\* as complete does, and the batches read from it are those of its frame
\* data joined by frame number.
C19_ChannelCompletion ==
  /\ \A k \in 1..Len(OpenChannels) : ~HasAllFrames(OpenChannels[k])
  /\ \A k \in 1..Len(ClosedChannels) :
       ClosedChannels[k].how \in {"completed", "undecodable"}
         <=> HasAllFrames(ClosedChannels[k].channel)
  /\ \A k \in 1..Len(Completed) :
       /\ Completed[k].how = "completed"
       /\ encode_batches(Completed[k].batches) = DataFrom(Completed[k].channel, 0)

\* A channel whose frame 1, marked last, arrived before its frame 0
\* completed, and its batch was derived.
C19_Witness ==
  /\ \E k \in 1..Len(Completed) :
       /\ ArrivalOrder(Completed[k].channel) = <<1, 0>>
       /\ Completed[k].channel.frames[1].is_last
       /\ Len(Completed[k].batches) > 0
       /\ Completed[k].batches[1] \in HandedBatches
  /\ pc = "returned"

(* ---------------------------------- C20 -------------------------------- *)

\* The payloads of the two lists a transaction is made of.
EssencePayload == encode_fields(transaction.essence.fields)

SignaturePayload == encode_fields(signature_fields(transaction.signature))

\* The bytes of the buffer behind the type byte, if the type has one.
ListBytes ==
  IF transaction.essence.tx_type = 0 THEN encoded.some.out
  ELSE SubSeq(encoded.some.out, 2, Len(encoded.some.out))

\* C20: for every transaction, length() is the number of bytes encode()
\* writes, and these are: the type byte exactly when the type is not 0,
\* then one list whose header states the sum of the lengths of the two
\* payloads and whose payload is the essence's followed by the signature's.
C20_LengthIsEncodedLength ==
  (IsSome(encoded) /\ IsSome(length)) =>
    /\ encoded.some.status = "ok"
    /\ length.some = Len(encoded.some.out)
    /\ transaction.essence.tx_type # 0 =>
         encoded.some.out[1] = transaction.essence.tx_type
    /\ LET header == Header_decode(ListBytes)
           head_length == Len(ListBytes) - Len(EssencePayload) - Len(SignaturePayload)
       IN  /\ IsSome(header)
           /\ header.some = [list |-> TRUE,
                             payload_length |-> Len(EssencePayload)
                                                  + Len(SignaturePayload)]
           /\ head_length = length_of_length(header.some.payload_length)
           /\ SubSeq(ListBytes, head_length + 1, Len(ListBytes))
                = EssencePayload \o SignaturePayload

\* A typed transaction with a payload that needs a header of three bytes
\* was encoded and measured.
C20_Witness ==
  /\ IsSome(encoded) /\ IsSome(length)
  /\ transaction.essence.tx_type = 2
  /\ Len(EssencePayload) + Len(SignaturePayload) > 255
  /\ length.some = Len(EssencePayload) + Len(SignaturePayload) + 4

(* ---------------------------------- C21 -------------------------------- *)

\* The L1-attributes transaction derive built in pass i.
SystemTx(i) == passes[i].derived_transactions[1].rlp

\* C21: in every pass that built the L1-attributes transaction, the source
\* hash is the hash, under domain 1, of the hash of the current epoch after
\* the pass's epoch update (the epoch the calldata carries) and of
\* op_block_seq_no after the pass's update.
C21_SourceHash ==
  \A i \in 1..Len(passes) :
    ReadHeader(i) =>
      /\ SystemTx(i).essence.data.args.hash = passes[i].epoch_after.hash
      /\ SystemTx(i).essence.data.args.number = passes[i].epoch_after.number
      /\ SystemTx(i).essence.source_hash
           = [keccak |-> <<1, [keccak |-> <<passes[i].epoch_after.hash,
                                            passes[i].seq_no_after>>]>>]

(* ---------------------------------- C24 -------------------------------- *)

\* C24: after every batch derive processed, the current epoch's number is
\* the batch's epoch_num, which is the number of the epoch before the batch
\* or that number plus one.
C24_EpochIsBatchEpoch ==
  \A i \in 1..Len(passes) :
    Accepted(i) =>
      /\ passes[i].epoch_after.number = passes[i].op_batch.epoch_num
      /\ passes[i].epoch_after.number
           \in {passes[i].epoch.number, passes[i].epoch.number + 1}

(* ---------------------------------- C22 -------------------------------- *)

\* derive is in its loops; derive has ended, with an output or without.
InDerive == pc \in {"loop", "batches"}

DeriveEnded == pc \in {"returned", "error", "panic"}

\* The full L1 blocks left in the database, and the L2 blocks left to the
\* target.
EthBlocksLeft == Cardinality(DOMAIN Db.full_eth_block)

OpBlocksLeft ==
  IF machine.op_block_no < target_block_no
  THEN target_block_no - machine.op_block_no ELSE 0

\* A step of derive's loops uses up what bounds them: an iteration of the
\* outer loop that goes on has removed one full L1 block, and fails when
\* the block is not there; a batch that is derived brings op_block_no one
\* closer to the target, and the batch loop is left exactly at the target.
DeriveStepBounded ==
  /\ (pc = "loop" /\ pc' = "batches") => EthBlocksLeft' = EthBlocksLeft - 1
  /\ (pc = "loop" /\ pc' # "returned"
        /\ machine.eth_block_no \notin DOMAIN Db.full_eth_block) => pc' = "panic"
  /\ (pc = "batches" /\ passes' # passes /\ pc' \in {"batches", "loop"}) =>
       /\ OpBlocksLeft' = OpBlocksLeft - 1
       /\ pc' = "loop" <=> OpBlocksLeft' = 0

\* C22: every call of derive ends, with an output or aborting, and each
\* step of its loops uses up the full L1 blocks of the database or the L2
\* blocks left to the target, the batch loop stopping at the target.
C22_DeriveTerminates ==
  /\ [][DeriveStepBounded]_vars
  /\ InDerive ~> DeriveEnded

\* derive returned after two L1 blocks and a batch, with the target
\* reached while the queue could yield another batch.
C22_Witness ==
  /\ pc = "returned"
  /\ Len(TakenFrom("full_eth_block")) >= 2
  /\ Len(passes) >= 1
  /\ IsSome(Batches_next(machine.op_batches).batch)

(* ---------------------------------- C23 -------------------------------- *)

\* The values the ConfigUpdate logs of the given type set in a block, in
\* log order.
ConfigUpdates(eth_block, update_type) ==
  IF ~IsSome(eth_block.receipts) THEN <<>>
  ELSE SelectSeq(BlockLogs(eth_block.receipts.some),
                 LAMBDA log : /\ log.address = SystemConfigContract
                              /\ log.topic = "ConfigUpdate"
                              /\ log.update_type = update_type)

\* The value in force once the first k L1 blocks fed are applied: the last
\* one they set, else the one the L2 head carries.
RECURSIVE ConfigValue(_, _, _)
ConfigValue(k, update_type, head_value) ==
  IF k = 0 THEN head_value
  ELSE LET updates == ConfigUpdates(FedBlock(k), update_type)
       IN  IF Len(updates) > 0 THEN updates[Len(updates)].value
           ELSE ConfigValue(k - 1, update_type, head_value)

\* C23: the batcher hash, the fee overhead and the fee scalar in the
\* L1-attributes transaction of every pass are those in force once all L1
\* blocks processed before the pass are applied, whatever the epoch of the
\* block derived.
C23_ConfigInForce ==
  \A i \in 1..Len(passes) :
    ReadHeader(i) =>
      LET args == SystemTx(i).essence.data.args
          k == passes[i].fed
      IN  /\ batcher_address(args.batcher_hash)
               = ConfigValue(k, "BatcherAddress",
                             batcher_address(HeadValues.batcher_hash))
          /\ args.batcher_hash.high12 = 0
          /\ args.l1_fee_overhead
               = ConfigValue(k, "FeeOverhead", HeadValues.l1_fee_overhead)
          /\ args.l1_fee_scalar
               = ConfigValue(k, "FeeScalar", HeadValues.l1_fee_scalar)

\* A block of an epoch before the L1 block that changes the fee scalar was
\* derived after that block was processed, with the new scalar.
C23_Witness ==
  /\ pc = "returned"
  /\ \E i \in 1..Len(passes) :
       /\ Accepted(i)
       /\ \E k \in 1..passes[i].fed :
            /\ Len(ConfigUpdates(FedBlock(k), "FeeScalar")) > 0
            /\ passes[i].epoch_after.number < Fed[k].l1_no
       /\ SystemTx(i).essence.data.args.l1_fee_scalar # HeadValues.l1_fee_scalar

(* ---------------------------------- C25 -------------------------------- *)

\* C25: the first full L1 block processed, the one stored under the L1
\* number the L2 head carries, has the header hash the L2 head carries, the
\* one new checked the L1 header witness against.
C25_FirstEthBlockVerified ==
  Len(Fed) >= 1 => HeaderHash(FedBlock(1).block_header) = HeadValues.hash

(* ---------------------------------- C26 -------------------------------- *)

\* The full L1 blocks taken from the witness database so far.
EthBlocksTaken == Len(TakenFrom("full_eth_block"))

\* The batch queue, asked now, yields no batch.
QueueDry == ~IsSome(Batches_next(machine.op_batches).batch)

\* A step that takes a full L1 block starts with fewer blocks derived than
\* requested, below the target, and with a queue that yields nothing, or
\* with no L1 block taken before.
TakesEthBlockWhenDry ==
  EthBlocksTaken' > EthBlocksTaken =>
    /\ pc = "loop"
    /\ Len(derived_op_blocks) < input.op_derive_block_count
    /\ machine.op_block_no < target_block_no
    /\ EthBlocksTaken = 0 \/ QueueDry

\* With the target reached inside derive, no later step takes an L1 block.
NoneTakenAtTarget ==
  (pc \in {"loop", "batches", "returned"}
     /\ machine.op_block_no = target_block_no) =>
    EthBlocksTaken' = EthBlocksTaken

\* The last block derived came from a batch the queue yielded after the
\* last L1 block processed, and eth_tail is that L1 block.
TailIsEarliest ==
  (pc = "returned" /\ Len(passes) > 0) =>
    /\ passes[Len(passes)].fed = Len(Fed)
    /\ output.some.eth_tail[1] = Fed[Len(Fed)].l1_no
    /\ output.some.eth_tail[2] = HeaderHash(FedBlock(Len(Fed)).block_header)

\* C26: derive takes a full L1 block only below the target and when the
\* queue has just yielded no batch or no L1 block was processed yet, takes
\* none once the target is reached, and so returns as eth_tail the L1 block
\* whose processing let the last requested L2 block be derived.
C26_EthBlocksOnDemand ==
  /\ [][TakesEthBlockWhenDry /\ NoneTakenAtTarget]_vars
  /\ [](TailIsEarliest)

\* derive returned the blocks requested while the queue still had a batch
\* to yield and the witness database still held a full L1 block.
C26_Witness ==
  /\ pc = "returned"
  /\ input.op_derive_block_count > 0
  /\ Len(derived_op_blocks) = input.op_derive_block_count
  /\ EthBlocksTaken >= 2
  /\ ~QueueDry
  /\ DOMAIN machine.derive_input.db.full_eth_block # {}

(* ---------------------------------- C27 -------------------------------- *)

\* C27: a call of derive on a machine whose call before returned an output
\* removes no witness, leaves the machine as it was and returns the same
\* eth_tail and op_head with an empty list of derived blocks.
C27_SecondDeriveIsEmpty ==
  \A k \in 2..Len(returns) :
    /\ returns[k].taken = returns[k - 1].taken
    /\ returns[k].passes = <<>>
    /\ returns[k].machine = returns[k - 1].machine
    /\ returns[k].output.eth_tail = returns[k - 1].output.eth_tail
    /\ returns[k].output.op_head = returns[k - 1].output.op_head
    /\ Len(returns[k].output.derived_op_blocks) = 0

\* A second call returned after a first one that derived the blocks
\* requested, more than none.
C27_Witness ==
  /\ pc = "returned"
  /\ Len(returns) = 2
  /\ input.op_derive_block_count > 0
  /\ Len(returns[1].output.derived_op_blocks) = input.op_derive_block_count
  /\ output.some.derived_op_blocks = <<>>

(* ---------------------------------- C28 -------------------------------- *)

\* The stores whose reads check a commitment of the header.
CommitmentStores == {"full_op_block", "full_eth_block"}

\* The step that failed took an entry whose transactions or receipts do not
\* match the roots of its header.
CommitmentFailed ==
  /\ pc = "error"
  /\ Len(taken) > 0
  /\ taken[Len(taken)][1] \in CommitmentStores
  /\ db_read(taken[Len(taken)][1], input.db, taken[Len(taken)][2]).status = "error"

\* C28: a read that fails on the transactions root or on the receipts root
\* returns a database without the entry, and the same read on that database
\* fails on the missing entry, not on the commitment; a run that ended on
\* such a read holds a database without the entry.
C28_FailedReadRemoves ==
  /\ \A store \in CommitmentStores :
       \A n \in DOMAIN Db[store] :
         LET r == db_read(store, Db, n)
             again == db_read(store, r.db, n)
         IN  r.status = "error" =>
               /\ n \notin DOMAIN r.db[store]
               /\ r.db # Db
               /\ again.status = "panic"
               /\ again.db = r.db
  /\ CommitmentFailed =>
       LET store == taken[Len(taken)][1]
           n == taken[Len(taken)][2]
       IN  /\ n \in DOMAIN input.db[store]
           /\ n \notin DOMAIN Db[store]
           /\ db_read(store, Db, n).status = "panic"

\* derive ended on a full L1 block whose transactions match its header and
\* whose receipts do not.
C28_Witness ==
  /\ CommitmentFailed
  /\ taken[Len(taken)][1] = "full_eth_block"
  /\ LET eth_block == input.db.full_eth_block[taken[Len(taken)][2]]
     IN  /\ TrieRoot(SeqMap(to_rlp, eth_block.transactions))
              = eth_block.block_header.transactions_root
         /\ IsSome(eth_block.receipts)
         /\ TrieRoot(SeqMap(to_rlp, eth_block.receipts.some))
              # eth_block.block_header.receipts_root

====
